---- MODULE Spec2Model ----
(***************************************************************************)
(* A model of the dfx build core: dependency resolution over dfx.json      *)
(* (src/dfx/src/config/dfinity.rs) and the Rust canister builder           *)
(* (src/dfx/src/lib/builders/rust.rs).                                     *)
(*                                                                         *)
(* Option<T> is a sequence of length 0 (None) or 1 (Some).                 *)
(***************************************************************************)
EXTENDS Integers, Sequences, FiniteSets, TLC

\* Bound on the total number of declared dependency edges of a project.
MaxEdges == 3

\* The same bound for the projects that are built.
MaxBuildEdges == 2

\* The canisters declared in dfx.json, and one name that is declared nowhere.
Canisters == {"a", "b", "c"}
Undeclared == "x"
Names == Canisters \cup {Undeclared}

\* The order of BTreeMap<String, _> keys (lexicographic) over Names.
KeyOrder == <<"a", "b", "c", "x">>

None == <<>>
Some(v) == <<v>>

\* A module file: absent, or present with what has been done to it.
NoFile == [exists |-> FALSE, fresh |-> FALSE, shrunk |-> FALSE, metadata |-> FALSE]

VARIABLES
    \* ---- dfx.json ----
    canisters,      \* ConfigInterface.canisters: Option<name -> dependencies>
    some_canister,  \* the focus argument: Option<name>
    \* ---- get_canister_names_with_dependencies / add_dependencies ----
    rpc,            \* position: "idle", "start", "call", "loop", "unwind", "collect",
                    \* "done"
    arg,            \* canister_name of the add_dependencies call being entered
    names,          \* the HashSet `names`
    path,           \* the Vec `path`
    stack,          \* active add_dependencies frames: canister_name, canister_config,
                    \* the loop index i, and (history) the path at entry, path0
    err,            \* the error being propagated by `?`
    result,         \* Option<DfxResult<Vec<String>>>
    visits,         \* history: how many times each dependency list was entered
    previous        \* what the resolution before this one returned, if there was one

rvars == <<canisters, some_canister, rpc, arg, names, path, stack, err, result, visits,
           previous>>

VARIABLES
    \* ---- CanisterPool ----
    canister_ids,   \* name -> Option<CanisterId>, assigned outside the build core
    caller,         \* who calls RustBuilder.build: "pool" (the orchestrator) or "direct"
    order,          \* the build order the orchestrator walks
    idx,            \* the orchestrator's position in order
    ppc,            \* orchestrator: "idle", "next", "building", "done", "aborted"
    results,        \* name -> "none" | "ok" | "err": the orchestrator's result set
    build_outputs,  \* name -> Option<BuildOutput>, as stored back into the pool
    \* ---- RustBuilder.build ----
    cur,            \* canister_info: the canister being built
    bpc,            \* position: "idle", "entry", "cargo", "probe", "optimizer",
                    \* "check", "metadata", "returned", "panicked"
    cargo_env,      \* the environment given to cargo
    cargo_status,   \* history, name -> "none" | "success" | "failure" | "spawn_error"
    optimizer,      \* this build's optimizer: "none", "unavailable", "success", "failure"
    events,         \* history: the external tools run, [tool, canister], in order
    warnings,       \* what warn! logged during this build
    build_result,   \* Option<DfxResult<BuildOutput>>
    wasm,           \* the file system: name -> the module at get_output_wasm_path()
    deps_returned   \* history: the last call of get_dependencies, Option<[canister,
                    \* outcome]>

bvars == <<canister_ids, caller, order, idx, ppc, results, build_outputs, cur, bpc,
           cargo_env, cargo_status, optimizer, events, warnings, build_result, wasm,
           deps_returned>>

VARIABLES
    \* ---- RustBuilder.generate_idl ----
    idl_files,      \* the file system: get_output_idl_path() -> what is at that path
    idl_info,       \* the `info` argument: the canister asked about
    idl_result      \* Option<DfxResult<PathBuf>>

ivars == <<idl_files, idl_info, idl_result>>

VARIABLES
    \* ---- identity/pem_safekeeping.rs ----
    pem_content,     \* the pem content handed to maybe_encrypt_pem
    identity_config, \* Option<IdentityConfiguration>, with encryption: Option<..>
    pem_pos,         \* "idle", "start", "encrypted", "decrypted", "panicked"
    encrypted,       \* what maybe_encrypt_pem returned
    decrypted,       \* what maybe_decrypt_pem returned
    prompts,         \* history: the password prompts shown, in order
    typed            \* history: the passwords typed at those prompts

pvars == <<pem_content, identity_config, pem_pos, encrypted, decrypted, prompts, typed>>

VARIABLES
    \* ---- Config::resolve_config_path ----
    working_dir,     \* the argument, a path as written (it may hold "..")
    config_files,    \* the file system: directory -> what is at its dfx.json
    curr,            \* the local `curr`
    cpos,            \* "idle", "start", "loop", "root", "done"
    config_path      \* Option<DfxResult<Option<PathBuf>>>

cvars == <<working_dir, config_files, curr, cpos, config_path>>

VARIABLES
    \* ---- ConfigInterface.networks / get_network ----
    networks_json,   \* the "networks" value of dfx.json: Option<name -> object>
    networks,        \* ConfigInterface.networks once dfx.json is deserialized
    network_name,    \* the `name` argument of get_network
    npos,            \* "idle", "start", "parsed", "failed", "done"
    network          \* Option<what get_network returned: Option<ConfigNetwork>>

nvars == <<networks_json, networks, network_name, npos, network>>

VARIABLES
    \* ---- lib/subnet.rs: get_subnet_for_canister ----
    subnet_canister, \* the canister_id argument
    attempts,        \* history: the outcome of each registry query sent, in order
    spos,            \* "idle", "query", "backoff", "done"
    subnet           \* Option<DfxResult<SubnetId>>

svars == <<subnet_canister, attempts, spos, subnet>>

VARIABLES
    \* ---- identity/pem_safekeeping.rs: save_pem, load_pem ----
    safe_name,       \* the identity name handed to both
    safe_config,     \* the IdentityConfiguration handed to both
    safe_content,    \* the pem content handed to save_pem
    keyring,         \* the keyring: key -> Option<pem>
    pem_files,       \* the pem files: path -> Option<bytes>
    saved,           \* Option<DfxResult<()>>
    loaded,          \* Option<Result<(Vec<u8>, bool), IdentityError>>
    stored_key,      \* history: the keyring key save_pem wrote
    looked_up_key,   \* history: the keyring key load_pem read
    kpos             \* "idle", "start", "saved", "loaded", "panicked"

kvars == <<safe_name, safe_config, safe_content, keyring, pem_files, saved, loaded,
           stored_key, looked_up_key, kpos>>

VARIABLES
    \* ---- config/dfinity.rs: PropertiesVisitor::visit_map ----
    type_object,     \* the JSON object of the canister
    unvisited,       \* the keys map.next_key() has not returned yet
    fields,       \* package, source, candid, build, wasm, type: Option each
    props,           \* Option<Result<CanisterTypeProperties, A::Error>>
    type_name,       \* Option<&str>: name() of the properties
    tpos             \* "idle", "keys", "done", "named"

tvars == <<type_object, unvisited, fields, props, type_name, tpos>>

VARIABLES
    \* ---- commands/cycles/transfer.rs: exec ----
    transfer_opts,   \* TransferOpts
    clock,           \* SystemTime::now(), nanoseconds since the epoch
    created_at_time, \* Option: the local created_at_time
    ledger_calls,    \* history: the calls made to the cycles ledger
    ledger_result,   \* Option: what the ledger call returned
    hints,           \* history: the timestamps of the retry warnings logged
    printed,         \* history: the block indices printed
    exec_result,     \* Option<DfxResult>
    xpos             \* "idle", "start", "time", "transfer", "report", "done", "panicked"

xvars == <<transfer_opts, clock, created_at_time, ledger_calls, ledger_result, hints,
           printed, exec_result, xpos>>

\* The state of the commands and library calls outside the build core.
more == <<svars, kvars, tvars, xvars>>

\* The state of everything but dependency resolution and build.
others == <<ivars, pvars, cvars, nvars, more>>

vars == <<rvars, bvars, others>>

--------------------------------------------------------------------------
\* Sequences helpers

Range(s) == {s[i] : i \in 1..Len(s)}

Contains(s, x) == x \in Range(s)

RECURSIVE SeqsOfLen(_, _)
SeqsOfLen(S, n) ==
    IF n = 0 THEN {<<>>}
    ELSE {Append(s, x) : s \in SeqsOfLen(S, n - 1), x \in S}

\* All dependency declarations of the canisters cs using at most `budget` edges.
RECURSIVE Graphs(_, _)
Graphs(cs, budget) ==
    IF cs = {} THEN {<<>>}
    ELSE LET c == CHOOSE x \in cs : TRUE
         IN UNION {
              UNION { { (c :> [dependencies |-> deps]) @@ g
                        : g \in Graphs(cs \ {c}, budget - n) }
                      : deps \in SeqsOfLen(Names, n) }
              : n \in 0..budget }

\* All orderings of a finite set.
RECURSIVE Permutations_(_)
Permutations_(S) ==
    IF S = {} THEN {<<>>}
    ELSE UNION { { <<x>> \o p : p \in Permutations_(S \ {x}) } : x \in S }

--------------------------------------------------------------------------
\* dfinity.rs

\* Mutant: the keys in the reverse of BTreeMap order.
KeysReversed(canister_map) ==
    LET ks == SelectSeq(KeyOrder, LAMBDA k : k \in DOMAIN canister_map)
    IN [i \in 1..Len(ks) |-> ks[Len(ks) + 1 - i]]

\* Mutant: the first key is left out.
KeysButFirst(canister_map) ==
    LET ks == SelectSeq(KeyOrder, LAMBDA k : k \in DOMAIN canister_map)
    IN SubSeq(ks, 2, Len(ks))

\* canister_map.keys().cloned().collect(): the keys in BTreeMap order.
Keys(canister_map) == SelectSeq(KeyOrder, LAMBDA k : k \in DOMAIN canister_map)

\* all_canisters.get(canister_name): Option<&ConfigCanistersCanister>.
GetCanister(canister_map, canister_name) ==
    IF canister_name \in DOMAIN canister_map
    THEN Some(canister_map[canister_name])
    ELSE None

\* Mutant: the loop stops one dependency short.
DependenciesButLast(canister_config) ==
    SubSeq(canister_config.dependencies, 1, Len(canister_config.dependencies) - 1)

\* &canister_config.dependencies, the list the for loop walks.
Dependencies(canister_config) == canister_config.dependencies

\* Mutant: every name seen before is taken to be on the path.
OnPathAlways(p, canister_name) == TRUE

\* Mutant: only the innermost name of the path is compared.
OnPathLastOnly(p, canister_name) == p # <<>> /\ p[Len(p)] = canister_name

\* path.contains(&String::from(canister_name))
OnPath(p, canister_name) == Contains(p, canister_name)

\* Mutant: the name is left on the path.
PopNothing(p) == p

\* path.pop()
Pop(p) == SubSeq(p, 1, Len(p) - 1)

\* names.insert(canister_name): whether the name was newly inserted.
Inserted(set, canister_name) == canister_name \notin set

\* Mutant: the repeated name is not pushed before the path is joined.
PathWithoutRepeatedName(p, canister_name) == p

\* path.push(canister_name) followed by path.join(" -> "): the error payload.
CircularDependencyPath(p, canister_name) == Append(p, canister_name)

DependencyError(p) ==
    [kind |-> "DependencyError", path |-> p, name |-> None, context |-> <<>>]

CannotFindCanister(canister_name) ==
    [kind |-> "CannotFindCanister", path |-> <<>>, name |-> Some(canister_name),
     context |-> <<>>]

NoCanisters ==
    [kind |-> "InvalidConfig", path |-> <<>>, name |-> None, context |-> <<>>]

\* Mutant: the function carries no #[context] attribute.
WithoutContext(e, fn, what) == e

\* #[context(...)]: the annotation a function adds to every error it returns;
\* `what` is the name the annotation's message carries.
WithContext(e, fn, what) == [e EXCEPT !.context = Append(@, [fn |-> fn, name |-> what])]

\* some_canister.unwrap_or("all canisters")
ForCanister(focus) == IF focus = None THEN "all canisters" ELSE focus[1]

\* The err field of a result that carries no error.
NoError == [kind |-> "None", path |-> <<>>, name |-> None, context |-> <<>>]

Ok(v) == [ok |-> TRUE, value |-> v, err |-> NoError]
Err(e) == [ok |-> FALSE, value |-> <<>>, err |-> e]

\* add_dependencies run to completion, as a function of the call's arguments:
\* st holds `names`, `path` and whether an Err is being returned.
RECURSIVE AddDependencies(_, _, _), AddDependenciesEach(_, _, _, _)
AddDependencies(canister_map, st, canister_name) ==
    LET inserted == Inserted(st.names, canister_name)
        st1 == [st EXCEPT !.names = @ \cup {canister_name}]
    IN IF ~inserted
       THEN IF OnPath(st.path, canister_name)
            THEN [st1 EXCEPT !.path = CircularDependencyPath(@, canister_name),
                             !.failed = TRUE]
            ELSE st1
       ELSE IF GetCanister(canister_map, canister_name) = None
            THEN [st1 EXCEPT !.failed = TRUE]
            ELSE LET canister_config == GetCanister(canister_map, canister_name)[1]
                     st2 == AddDependenciesEach(canister_map,
                                [st1 EXCEPT !.path = Append(@, canister_name)],
                                Dependencies(canister_config), 1)
                 IN IF st2.failed
                    THEN st2
                    ELSE [st2 EXCEPT !.path = Pop(@)]

\* The for loop of add_dependencies from its i-th turn on; `?` leaves it.
AddDependenciesEach(canister_map, st, dependencies, i) ==
    IF i > Len(dependencies)
    THEN st
    ELSE LET st1 == AddDependencies(canister_map, st, dependencies[i])
         IN IF st1.failed
            THEN st1
            ELSE AddDependenciesEach(canister_map, st1, dependencies, i + 1)

\* The Some(specific_canister) arm: names and path start empty.
FocusedRun(canister_map, specific_canister) ==
    AddDependencies(canister_map, [names |-> {}, path |-> <<>>, failed |-> FALSE],
                    specific_canister)

\* get_canister_names_with_dependencies, up to the call of add_dependencies.
GetCanisterNames ==
    /\ rpc = "start"
    /\ IF canisters = None
       THEN /\ result' = Some(Err(WithContext(NoCanisters, "get_canister_names_with_dependencies",
                                              ForCanister(some_canister))))
            /\ rpc' = "done"
            /\ UNCHANGED <<arg, names, path>>
       ELSE IF some_canister = None
       THEN /\ result' = Some(Ok(Keys(canisters[1])))
            /\ rpc' = "done"
            /\ UNCHANGED <<arg, names, path>>
       ELSE /\ names' = {}
            /\ path' = <<>>
            /\ arg' = some_canister[1]
            /\ rpc' = "call"
            /\ UNCHANGED result
    /\ UNCHANGED <<canisters, some_canister, stack, err, visits>>
    /\ UNCHANGED <<previous, bvars, others>>

\* add_dependencies from its entry to the start of the for loop.
AddDependenciesEnter ==
    /\ rpc = "call"
    /\ names' = names \cup {arg}
    /\ IF ~Inserted(names, arg)
       THEN IF OnPath(path, arg)
            THEN /\ path' = CircularDependencyPath(path, arg)
                 /\ err' = WithContext(DependencyError(path'), "add_dependencies", arg)
                 /\ rpc' = "unwind"
                 /\ UNCHANGED <<stack, visits>>
            ELSE /\ rpc' = "loop"
                 /\ UNCHANGED <<path, err, stack, visits>>
       ELSE IF GetCanister(canisters[1], arg) = None
            THEN /\ err' = WithContext(CannotFindCanister(arg), "add_dependencies", arg)
                 /\ rpc' = "unwind"
                 /\ UNCHANGED <<path, stack, visits>>
            ELSE /\ path' = Append(path, arg)
                 /\ stack' = Append(stack,
                        [canister_name |-> arg,
                         canister_config |-> GetCanister(canisters[1], arg)[1],
                         i |-> 1,
                         path0 |-> path])
                 /\ visits' = [visits EXCEPT ![arg] = @ + 1]
                 /\ rpc' = "loop"
                 /\ UNCHANGED err
    /\ UNCHANGED <<canisters, some_canister, arg, result>>
    /\ UNCHANGED <<previous, bvars, others>>

\* One turn of the for loop, or its end: path.pop() and Ok(()).
AddDependenciesLoop ==
    /\ rpc = "loop"
    /\ LET f == stack[Len(stack)]
           deps == Dependencies(f.canister_config)
       IN IF f.i <= Len(deps)
          THEN /\ arg' = deps[f.i]
               /\ stack' = [stack EXCEPT ![Len(stack)].i = f.i + 1]
               /\ rpc' = "call"
               /\ UNCHANGED path
          ELSE /\ path' = Pop(path)
               /\ stack' = SubSeq(stack, 1, Len(stack) - 1)
               /\ rpc' = IF Len(stack) = 1 THEN "collect" ELSE "loop"
               /\ UNCHANGED arg
    /\ UNCHANGED <<canisters, some_canister, names, err, result, visits>>
    /\ UNCHANGED <<previous, bvars, others>>

\* `?`: an error leaves one frame, which annotates it; the last one returns it
\* from get_canister_names_with_dependencies.
AddDependenciesUnwind ==
    /\ rpc = "unwind"
    /\ IF stack # <<>>
       THEN /\ err' = WithContext(err, "add_dependencies", stack[Len(stack)].canister_name)
            /\ stack' = SubSeq(stack, 1, Len(stack) - 1)
            /\ UNCHANGED <<rpc, result>>
       ELSE /\ result' = Some(Err(WithContext(err, "get_canister_names_with_dependencies",
                                              ForCanister(some_canister))))
            /\ rpc' = "done"
            /\ UNCHANGED <<err, stack>>
    /\ UNCHANGED <<canisters, some_canister, arg, names, path, visits>>
    /\ UNCHANGED <<previous, bvars, others>>

\* names.into_iter().collect(): a HashSet iterates in an unspecified order.
CollectNames ==
    /\ rpc = "collect"
    /\ \E collected \in Permutations_(names) : result' = Some(Ok(collected))
    /\ rpc' = "done"
    /\ UNCHANGED <<canisters, some_canister, arg, names, path, stack, err, visits>>
    /\ UNCHANGED <<previous, bvars, others>>

\* get_canister_names_with_dependencies is called once more on the same
\* ConfigInterface with the same argument: its locals are fresh.
ResolveAgain ==
    /\ rpc = "done"
    /\ previous = None
    /\ previous' = result
    /\ rpc' = "start"
    /\ arg' = Undeclared
    /\ names' = {}
    /\ path' = <<>>
    /\ err' = NoError
    /\ result' = None
    /\ visits' = [n \in Names |-> 0]
    /\ UNCHANGED <<canisters, some_canister, stack, bvars, others>>

\* No resolution under way.
ResolveIdle ==
    /\ rpc = "idle"
    /\ arg = Undeclared
    /\ names = {}
    /\ path = <<>>
    /\ stack = <<>>
    /\ err = NoError
    /\ result = None
    /\ visits = [n \in Names |-> 0]
    /\ previous = None

\* generate_idl is not called.
IdlIdle ==
    /\ idl_files = <<>>
    /\ idl_info = Undeclared
    /\ idl_result = None

\* No pem content is encrypted or decrypted.
PemIdle ==
    /\ pem_content = <<>>
    /\ identity_config = None
    /\ pem_pos = "idle"
    /\ encrypted = None
    /\ decrypted = None
    /\ prompts = <<>>
    /\ typed = <<>>

\* resolve_config_path is not called.
ConfigPathIdle ==
    /\ working_dir = <<>>
    /\ config_files = <<>>
    /\ curr = <<>>
    /\ cpos = "idle"
    /\ config_path = None

\* get_network is not called.
NetworkIdle ==
    /\ networks_json = None
    /\ networks = None
    /\ network_name = ""
    /\ npos = "idle"
    /\ network = None

\* get_subnet_for_canister is not called.
SubnetIdle ==
    /\ subnet_canister = ""
    /\ attempts = <<>>
    /\ spos = "idle"
    /\ subnet = None

\* save_pem and load_pem are not called.
SafekeepingIdle ==
    /\ safe_name = ""
    /\ safe_config = None
    /\ safe_content = <<>>
    /\ keyring = <<>>
    /\ pem_files = <<>>
    /\ saved = None
    /\ loaded = None
    /\ stored_key = None
    /\ looked_up_key = None
    /\ kpos = "idle"

\* No canister is being deserialized.
PropertiesIdle ==
    /\ type_object = <<>>
    /\ unvisited = {}
    /\ fields = <<>>
    /\ props = None
    /\ type_name = None
    /\ tpos = "idle"

\* dfx cycles transfer is not run.
TransferIdle ==
    /\ transfer_opts = <<>>
    /\ clock = 0
    /\ created_at_time = None
    /\ ledger_calls = <<>>
    /\ ledger_result = None
    /\ hints = <<>>
    /\ printed = <<>>
    /\ exec_result = None
    /\ xpos = "idle"

\* No command or library call outside the build core is under way.
MoreIdle ==
    /\ SubnetIdle
    /\ SafekeepingIdle
    /\ PropertiesIdle
    /\ TransferIdle

\* Nothing but dependency resolution and build is under way.
OthersIdle ==
    /\ IdlIdle
    /\ PemIdle
    /\ ConfigPathIdle
    /\ NetworkIdle
    /\ MoreIdle

\* Nothing built yet.
NothingBuilt ==
    /\ idx = 1
    /\ results = [c \in Canisters |-> "none"]
    /\ build_outputs = [c \in Canisters |-> None]
    /\ cargo_env = {}
    /\ cargo_status = [c \in Canisters |-> "none"]
    /\ optimizer = "none"
    /\ events = <<>>
    /\ warnings = {}
    /\ build_result = None
    /\ deps_returned = None

InitResolve ==
    /\ canisters \in {None} \cup {Some(g) : g \in Graphs(Canisters, MaxEdges)}
    /\ some_canister \in {None} \cup {Some(n) : n \in Names}
    /\ canister_ids = [c \in Canisters |-> None]
    /\ caller = "direct"
    /\ order = <<>>
    /\ cur = Undeclared
    /\ wasm = [c \in Canisters |-> NoFile]
    /\ ppc = "idle"
    /\ bpc = "idle"
    /\ NothingBuilt
    /\ OthersIdle
    /\ rpc = "start"
    /\ arg = Undeclared
    /\ names = {}
    /\ path = <<>>
    /\ stack = <<>>
    /\ err = NoError
    /\ result = None
    /\ visits = [n \in Names |-> 0]
    /\ previous = None

NextResolve ==
    \/ GetCanisterNames
    \/ AddDependenciesEnter
    \/ AddDependenciesLoop
    \/ AddDependenciesUnwind
    \/ CollectNames
    \/ ResolveAgain

SpecResolve == InitResolve /\ [][NextResolve]_vars

\* The same, with the caller running every step that can be taken.
SpecResolveLive == SpecResolve /\ WF_vars(NextResolve)

--------------------------------------------------------------------------
\* builders/rust.rs

\* The principal assigned to a canister, as text.
Principal == [a |-> "rrkah-fqaaa", b |-> "ryjl3-tyaaa", c |-> "r7inp-6aaaa"]

\* rust_info.get_package(): the cargo package a canister is built from.
Package == [a |-> "pkg_a", b |-> "pkg_b", c |-> "pkg_c"]

\* rust_info.get_output_wasm_path() and get_output_idl_path().
OutputWasmPath(name) == [file |-> "wasm", canister |-> name]
OutputIdlPath(name) == [file |-> "did", canister |-> name]

\* What cargo leaves at the output path, and what an earlier build left there.
FreshModule == [exists |-> TRUE, fresh |-> TRUE, shrunk |-> FALSE, metadata |-> FALSE]
StaleModule == [exists |-> TRUE, fresh |-> FALSE, shrunk |-> TRUE, metadata |-> TRUE]

\* pool.get_first_canister_with_name(name)
GetFirstCanisterWithName(pool, name) ==
    IF name \in DOMAIN pool THEN Some(name) ELSE None

CanisterNotInProject(name) ==
    [kind |-> "CanisterNotInProject", path |-> <<>>, name |-> Some(name), context |-> <<>>]

\* deps.iter().map(..).collect::<DfxResult<Vec<CanisterId>>>(): the first name
\* the pool does not know ends the collection with its error; canister_id()
\* yields a CanisterId, not a Result, so a canister without one aborts.
RECURSIVE CollectCanisterIds(_, _, _)
CollectCanisterIds(pool, deps, acc) ==
    IF deps = <<>>
    THEN [status |-> "ok", value |-> acc, err |-> NoError]
    ELSE LET found == GetFirstCanisterWithName(pool, Head(deps))
         IN IF found = None
            THEN [status |-> "err", value |-> <<>>,
                  err |-> CanisterNotInProject(Head(deps))]
            ELSE IF pool[found[1]] = None
            THEN [status |-> "panic", value |-> <<>>, err |-> NoError]
            ELSE CollectCanisterIds(pool, Tail(deps), Append(acc, pool[found[1]][1]))

\* RustBuilder::get_dependencies
GetDependencies(pool, canister_config, name) ==
    LET r == CollectCanisterIds(pool, canister_config.dependencies, <<>>)
    IN IF r.status = "err"
       THEN [r EXCEPT !.err = WithContext(WithContext(@, "collect dependencies", name),
                                          "get_dependencies", name)]
       ELSE r

\* .unwrap_or_default()
UnwrapOrDefault(r) == IF r.status = "ok" THEN r.value ELSE <<>>

\* The name of the variable that carries a dependency's identifier (section
\* 4.3 of the specification; builders/mod.rs is not among the sources).
EnvName == [a |-> "CANISTER_ID_A", b |-> "CANISTER_ID_B", c |-> "CANISTER_ID_C"]

\* super::environment_variables: one pair per resolved dependency.
EnvironmentVariables(pool, dependencies) ==
    { <<EnvName[c], pool[c][1]>> :
        c \in {d \in DOMAIN pool : pool[d] # None /\ Contains(dependencies, pool[d][1])} }

\* Mutant: the compiler's exit status is not looked at.
CompileNeverFailed(status) == FALSE

\* !output.status.success()
CompileFailed(status) == status # "success"

\* Mutant: the message does not carry the package.
CompileErrorUnnamed(package) ==
    [kind |-> "CompileFailed", path |-> <<>>, name |-> None, context |-> <<>>]

\* bail!("Failed to compile the rust package: {}", package)
CompileError(package) ==
    [kind |-> "CompileFailed", path |-> <<>>, name |-> Some(package), context |-> <<>>]

\* .context("Failed to run 'cargo build'.")
SpawnError ==
    [kind |-> "FailedToRunCargo", path |-> <<>>, name |-> None, context |-> <<>>]

MetadataError ==
    [kind |-> "AddCandidMetadataFailed", path |-> <<>>, name |-> None, context |-> <<>>]

\* matches!(optimizer.status(), Ok(status) if status.success())
OptimizerSucceeded(status) == status = "success"

\* Mutant: the result of add_candid_service_metadata is dropped.
MetadataNeverFails(outcome) == FALSE

\* The `?` after add_candid_service_metadata(..).
MetadataFailed(outcome) == outcome # "ok"

BuildOutput(name, canister_id) ==
    [canister_id |-> canister_id,
     wasm |-> OutputWasmPath(name),
     idl |-> OutputIdlPath(name)]

\* Mutant: the optimizer writes next to the module instead of over it.
OptimizerOutputElsewhere(name) == [file |-> "optimized.wasm", canister |-> name]

\* .arg("-o").arg(wasm_path): where ic-cdk-optimizer writes.
OptimizerOutputPath(name) == OutputWasmPath(name)

\* .arg(wasm_path): what ic-cdk-optimizer reads.
OptimizerInputPath(name) == OutputWasmPath(name)

\* The first argument of add_candid_service_metadata: the module it rewrites.
MetadataTargetPath(name) == OutputWasmPath(name)

\* What a tool reads and what it writes.
ToolInput(tool, name) ==
    IF tool = "ic-cdk-optimizer" THEN OptimizerInputPath(name)
    ELSE IF tool = "add_candid_service_metadata" THEN OutputIdlPath(name)
    ELSE [file |-> "package", canister |-> name]

ToolOutput(tool, name) ==
    IF tool = "ic-cdk-optimizer" THEN OptimizerOutputPath(name)
    ELSE IF tool = "add_candid_service_metadata" THEN MetadataTargetPath(name)
    ELSE OutputWasmPath(name)

Event(tool, name) ==
    [tool |-> tool, canister |-> name,
     input |-> ToolInput(tool, name), output |-> ToolOutput(tool, name)]

\* build, from its entry to the cargo command being ready.
BuildPrepare ==
    /\ bpc = "entry"
    /\ LET id == canister_ids[cur]
           dependencies == GetDependencies(canister_ids, canisters[1][cur], cur)
       IN IF id = None
          THEN /\ bpc' = "panicked"
               /\ UNCHANGED <<cargo_env, deps_returned>>
          ELSE /\ deps_returned' = Some([canister |-> cur, outcome |-> dependencies])
               /\ IF dependencies.status = "panic"
                  THEN /\ bpc' = "panicked"
                       /\ UNCHANGED cargo_env
                  ELSE /\ cargo_env' = EnvironmentVariables(canister_ids,
                                                            UnwrapOrDefault(dependencies))
                       /\ bpc' = "cargo"
    /\ optimizer' = "none"
    /\ warnings' = {}
    /\ build_result' = None
    /\ UNCHANGED <<canister_ids, caller, order, idx, ppc, results, build_outputs, cur,
                   cargo_status, events, wasm>>
    /\ UNCHANGED <<rvars, others>>

\* cargo.output(): cargo cannot be started, or runs and exits.
BuildRunCargo ==
    /\ bpc = "cargo"
    /\ \E status \in {"spawn_error", "success", "failure"} :
        /\ cargo_status' = [cargo_status EXCEPT ![cur] = status]
        /\ IF status = "spawn_error"
           THEN /\ build_result' = Some(Err(WithContext(SpawnError, "build", cur)))
                /\ bpc' = "returned"
                /\ UNCHANGED <<events, wasm>>
           ELSE /\ events' = Append(events, Event("cargo", cur))
                /\ wasm' = IF status = "success"
                           THEN [wasm EXCEPT ![cur] = FreshModule]
                           ELSE wasm
                /\ bpc' = "probe"
                /\ UNCHANGED build_result
    /\ UNCHANGED <<canister_ids, caller, order, idx, ppc, results, build_outputs, cur,
                   cargo_env, optimizer, warnings>>
    /\ UNCHANGED <<deps_returned, rvars, others>>

\* Command::new("ic-cdk-optimizer").arg("--version").output().is_ok()
BuildProbeOptimizer ==
    /\ bpc = "probe"
    /\ \E installed \in BOOLEAN :
        IF installed
        THEN /\ bpc' = "optimizer"
             /\ UNCHANGED <<optimizer, warnings>>
        ELSE /\ optimizer' = "unavailable"
             /\ warnings' = warnings \cup {"ic-cdk-optimizer not installed"}
             /\ bpc' = "check"
    /\ UNCHANGED <<canister_ids, caller, order, idx, ppc, results, build_outputs, cur,
                   cargo_env, cargo_status, events, build_result, wasm>>
    /\ UNCHANGED <<deps_returned, rvars, others>>

\* ic-cdk-optimizer -o wasm_path wasm_path; it can only succeed on a module.
BuildRunOptimizer ==
    /\ bpc = "optimizer"
    /\ \E status \in {"success", "failure"} :
        /\ status = "success" => wasm[cur].exists
        /\ events' = Append(events, Event("ic-cdk-optimizer", cur))
        /\ optimizer' = status
        /\ wasm' = IF status = "success"
                   THEN [wasm EXCEPT ![cur].shrunk = TRUE]
                   ELSE wasm
        /\ warnings' = IF OptimizerSucceeded(status)
                       THEN warnings
                       ELSE warnings \cup {"Failed to run ic-cdk-optimizer."}
    /\ bpc' = "check"
    /\ UNCHANGED <<canister_ids, caller, order, idx, ppc, results, build_outputs, cur,
                   cargo_env, cargo_status, build_result>>
    /\ UNCHANGED <<deps_returned, rvars, others>>

\* if !output.status.success() { bail!(..) }
BuildCheckCompile ==
    /\ bpc = "check"
    /\ IF CompileFailed(cargo_status[cur])
       THEN /\ build_result' =
                  Some(Err(WithContext(CompileError(Package[cur]), "build", cur)))
            /\ bpc' = "returned"
       ELSE /\ bpc' = "metadata"
            /\ UNCHANGED build_result
    /\ UNCHANGED <<canister_ids, caller, order, idx, ppc, results, build_outputs, cur,
                   cargo_env, cargo_status, optimizer, events, warnings, wasm>>
    /\ UNCHANGED <<deps_returned, rvars, others>>

\* add_candid_service_metadata(wasm_path, idl_path)?, then Ok(BuildOutput {..})
BuildAddMetadata ==
    /\ bpc = "metadata"
    /\ \E outcome \in {"ok", "error"} :
        /\ events' = Append(events, Event("add_candid_service_metadata", cur))
        /\ wasm' = IF outcome = "ok"
                   THEN [wasm EXCEPT ![cur].metadata = TRUE]
                   ELSE wasm
        /\ build_result' =
              IF MetadataFailed(outcome)
              THEN Some(Err(WithContext(MetadataError, "build", cur)))
              ELSE Some(Ok(BuildOutput(cur, canister_ids[cur][1])))
    /\ bpc' = "returned"
    /\ UNCHANGED <<canister_ids, caller, order, idx, ppc, results, build_outputs, cur,
                   cargo_env, cargo_status, optimizer, warnings>>
    /\ UNCHANGED <<deps_returned, rvars, others>>

--------------------------------------------------------------------------
\* The pool's build loop, after section 4.5 of the specification (the pool's
\* source, lib/models/canister.rs, is not among the sources): for each name in
\* build order, get_dependencies and then build; the first failure ends the
\* loop; each BuildOutput is stored before the next package starts.

PoolNext ==
    /\ ppc = "next"
    /\ IF idx > Len(order)
       THEN /\ ppc' = "done"
            /\ UNCHANGED <<results, cur, bpc, deps_returned>>
       ELSE LET name == order[idx]
                dependencies == GetDependencies(canister_ids, canisters[1][name], name)
            IN /\ deps_returned' = Some([canister |-> name, outcome |-> dependencies])
               /\ IF dependencies.status = "panic"
                  THEN /\ ppc' = "aborted"
                       /\ UNCHANGED <<results, cur, bpc>>
                  ELSE IF dependencies.status = "err"
                  THEN /\ results' = [results EXCEPT ![name] = "err"]
                       /\ ppc' = "done"
                       /\ UNCHANGED <<cur, bpc>>
                  ELSE /\ cur' = name
                       /\ bpc' = "entry"
                       /\ ppc' = "building"
                       /\ UNCHANGED results
    /\ UNCHANGED <<canister_ids, caller, order, idx, build_outputs, cargo_env,
                   cargo_status, optimizer, events, warnings, build_result, wasm>>
    /\ UNCHANGED <<rvars, others>>

PoolCollect ==
    /\ ppc = "building"
    /\ bpc \in {"returned", "panicked"}
    /\ IF bpc = "panicked"
       THEN /\ ppc' = "aborted"
            /\ UNCHANGED <<results, build_outputs, idx>>
       ELSE IF build_result[1].ok
       THEN /\ results' = [results EXCEPT ![cur] = "ok"]
            /\ build_outputs' = [build_outputs EXCEPT ![cur] = Some(build_result[1].value)]
            /\ idx' = idx + 1
            /\ ppc' = "next"
       ELSE /\ results' = [results EXCEPT ![cur] = "err"]
            /\ ppc' = "done"
            /\ UNCHANGED <<build_outputs, idx>>
    /\ bpc' = "idle"
    /\ UNCHANGED <<canister_ids, caller, order, cur, cargo_env, cargo_status,
                   optimizer, events, warnings, build_result, wasm>>
    /\ UNCHANGED <<deps_returned, rvars, others>>

InitBuild ==
    /\ canisters \in {Some(g) : g \in Graphs(Canisters, MaxBuildEdges)}
    /\ some_canister = None
    /\ ResolveIdle
    /\ canister_ids \in {[c \in Canisters |-> IF c \in S THEN Some(Principal[c]) ELSE None]
                           : S \in SUBSET Canisters}
    /\ wasm \in {[c \in Canisters |-> NoFile], [c \in Canisters |-> StaleModule]}
    /\ \/ /\ caller = "pool"
          /\ order = Keys(canisters[1])
          /\ cur = order[1]
          /\ ppc = "next"
          /\ bpc = "idle"
       \/ /\ caller = "direct"
          /\ order = <<>>
          /\ cur \in Canisters
          /\ ppc = "idle"
          /\ bpc = "entry"
    /\ NothingBuilt
    /\ OthersIdle

NextBuild ==
    \/ BuildPrepare
    \/ BuildRunCargo
    \/ BuildProbeOptimizer
    \/ BuildRunOptimizer
    \/ BuildCheckCompile
    \/ BuildAddMetadata
    \/ PoolNext
    \/ PoolCollect

SpecBuild == InitBuild /\ [][NextBuild]_vars

--------------------------------------------------------------------------
\* No project is being resolved or built.
CoreIdle ==
    /\ canisters = None
    /\ some_canister = None
    /\ ResolveIdle
    /\ canister_ids = [c \in Canisters |-> None]
    /\ caller = "direct"
    /\ order = <<>>
    /\ cur = Undeclared
    /\ wasm = [c \in Canisters |-> NoFile]
    /\ ppc = "idle"
    /\ bpc = "idle"
    /\ NothingBuilt

--------------------------------------------------------------------------
\* builders/rust.rs: generate_idl

\* What can be at a path: nothing, a directory, or a file with its content.
NoEntry == [kind |-> "none", content |-> ""]
Directory == [kind |-> "dir", content |-> ""]
File(content) == [kind |-> "file", content |-> content]
IdlEntries == {NoEntry, Directory, File("service : {}"),
               File("service : { greet : (text) -> (text) }")}

IdlPaths == {OutputIdlPath(c) : c \in Canisters}

\* Mutant: the path is not looked at.
PathAlwaysExists(entry) == TRUE

\* Path::exists(): true for whatever the path leads to.
PathExists(entry) == entry.kind # "none"

\* bail!("Candid file: {} doesn't exist.", output_idl_path)
CandidFileDoesNotExist(idl_path) ==
    [kind |-> "CandidFileDoesNotExist", path |-> <<>>, name |-> None,
     context |-> <<>>, file |-> idl_path]

\* generate_idl: it reads the file system and writes nothing. `info` is a Rust
\* canister's (the builder is chosen by canister type).
GenerateIdl ==
    /\ idl_result = None
    /\ idl_info \in Canisters
    /\ LET output_idl_path == OutputIdlPath(idl_info)
       IN idl_result' = IF PathExists(idl_files[output_idl_path])
                        THEN Some([ok |-> TRUE, value |-> output_idl_path,
                                   err |-> NoError])
                        ELSE Some([ok |-> FALSE, value |-> output_idl_path,
                                   err |-> CandidFileDoesNotExist(output_idl_path)])
    /\ UNCHANGED <<idl_files, idl_info>>
    /\ UNCHANGED <<rvars, bvars, pvars, cvars, nvars, more>>

InitIdl ==
    /\ CoreIdle
    /\ MoreIdle
    /\ PemIdle
    /\ ConfigPathIdle
    /\ NetworkIdle
    /\ idl_files \in [IdlPaths -> IdlEntries]
    /\ idl_info \in Canisters
    /\ idl_result = None

NextIdl ==
    \/ GenerateIdl

SpecIdl == InitIdl /\ [][NextIdl]_vars

--------------------------------------------------------------------------
\* identity/pem_safekeeping.rs
\*
\* Byte strings are either raw bytes or the output of AES-256-GCM, which is
\* kept symbolic: it can be opened with the key and nonce it was sealed with
\* and with nothing else. An Argon2 hash is symbolic in the same way: it is
\* determined by, and determines, the parameters, password and salt.

\* Bound on the length of a pem content.
MaxContentLen == 2

Bytes == {0, 1}

Raw(bytes) == [sealed |-> FALSE, key |-> <<>>, nonce |-> <<>>, inner |-> bytes]

PemContents == {Raw(b) : b \in UNION {SeqsOfLen(Bytes, n) : n \in 0..MaxContentLen}}

\* Salts as text: none, and two of the kind SaltString::generate gives.
Salts == {<<>>, <<"c", "2", "F", "s">>, <<"c", "G", "V", "w">>}

\* Nonces: two of 96 bits, and one that is a byte short.
Nonces == {[i \in 1..12 |-> 0], [i \in 1..12 |-> 1], [i \in 1..11 |-> 0]}

EncryptionConfigurations == [pw_salt : Salts, file_nonce : Nonces]

IdentityConfigurations ==
    {[encryption |-> None]} \cup {[encryption |-> Some(e)] : e \in EncryptionConfigurations}

Passwords == {"", "hunter2", "correct horse"}

\* get_argon_params()
GetArgonParams == [m_cost |-> 64000, t_cost |-> 3, p_cost |-> 1, output_len |-> 32]

\* Argon2::hash_password(password, salt): a salt shorter than four characters
\* (or longer than 64) is refused; Some(hash) otherwise.
HashPassword(params, password, salt) ==
    IF Len(salt) < 4 \/ Len(salt) > 64
    THEN None
    ELSE Some([params |-> params, password |-> password, salt |-> salt])

\* Nonce::from_slice(..) asserts that the slice has the length of a nonce.
NonceFits(file_nonce) == Len(file_nonce) = 12

\* cipher.encrypt(nonce, content)
AeadEncrypt(key, nonce, content) ==
    [sealed |-> TRUE, key |-> key, nonce |-> nonce, inner |-> content]

\* cipher.decrypt(nonce, encrypted_content): Some(plaintext) when the tag
\* verifies under this key and nonce.
AeadDecrypt(key, nonce, encrypted_content) ==
    IF encrypted_content.sealed /\ encrypted_content.key = key
                               /\ encrypted_content.nonce = nonce
    THEN Some(encrypted_content.inner)
    ELSE None

PemError(kind) == [kind |-> kind]

PemOk(value, was_encrypted) ==
    [status |-> "ok", value |-> value, was_encrypted |-> was_encrypted,
     err |-> PemError("None")]

PemErr(kind) ==
    [status |-> "err", value |-> Raw(<<>>), was_encrypted |-> FALSE, err |-> PemError(kind)]

PemPanic ==
    [status |-> "panic", value |-> Raw(<<>>), was_encrypted |-> FALSE,
     err |-> PemError("None")]

\* encrypt(content, config, password)
Encrypt(content, config, password) ==
    LET hash == HashPassword(GetArgonParams, password, config.pw_salt)
    IN IF hash = None
       THEN PemErr("HashPasswordFailed")
       ELSE IF ~NonceFits(config.file_nonce)
       THEN PemPanic
       ELSE PemOk(AeadEncrypt(hash[1], config.file_nonce, content), FALSE)

\* Mutant: the key is derived without the configuration's salt.
DecryptWithFixedSalt(encrypted_content, config, password) ==
    LET hash == HashPassword(GetArgonParams, password, <<"c", "2", "F", "s">>)
    IN IF ~NonceFits(config.file_nonce)
       THEN PemPanic
       ELSE LET pem == AeadDecrypt(hash[1], config.file_nonce, encrypted_content)
            IN IF pem = None THEN PemErr("DecryptContentFailed") ELSE PemOk(pem[1], FALSE)

\* decrypt(encrypted_content, config, password)
Decrypt(encrypted_content, config, password) ==
    LET hash == HashPassword(GetArgonParams, password, config.pw_salt)
    IN IF hash = None
       THEN PemErr("HashPasswordFailed")
       ELSE IF ~NonceFits(config.file_nonce)
       THEN PemPanic
       ELSE LET pem == AeadDecrypt(hash[1], config.file_nonce, encrypted_content)
            IN IF pem = None THEN PemErr("DecryptContentFailed") ELSE PemOk(pem[1], FALSE)

\* Mutant: the encryption settings are not looked at.
EncryptionIgnored(config) == None

\* config.and_then(|c| c.encryption.as_ref())
EncryptionOf(config) == IF config = None THEN None ELSE config[1].encryption

\* What password_prompt can return: a password, or ReadUserPasswordFailed.
PromptFailed == "<ReadUserPasswordFailed>"
PromptAnswers == Passwords \cup {PromptFailed}

\* maybe_encrypt_pem(pem_content, config)
MaybeEncryptPem ==
    /\ pem_pos = "start"
    /\ LET encryption_config == EncryptionOf(identity_config)
       IN IF encryption_config # None
          THEN \E answer \in PromptAnswers :
                /\ prompts' = Append(prompts, "EncryptingToCreate")
                /\ IF answer = PromptFailed
                   THEN /\ encrypted' = Some(PemErr("ReadUserPasswordFailed"))
                        /\ UNCHANGED typed
                   ELSE /\ encrypted' = Some(Encrypt(pem_content, encryption_config[1],
                                                     answer))
                        /\ typed' = Append(typed, answer)
          ELSE /\ encrypted' = Some(PemOk(pem_content, FALSE))
               /\ UNCHANGED <<prompts, typed>>
    /\ pem_pos' = IF encrypted'[1].status = "panic" THEN "panicked" ELSE "encrypted"
    /\ UNCHANGED <<pem_content, identity_config, decrypted>>
    /\ UNCHANGED <<rvars, bvars, ivars, cvars, nvars, more>>

\* maybe_decrypt_pem(pem_content, config) on what maybe_encrypt_pem returned.
MaybeDecryptPem ==
    /\ pem_pos = "encrypted"
    /\ encrypted[1].status = "ok"
    /\ LET decryption_config == EncryptionOf(identity_config)
       IN IF decryption_config # None
          THEN \E answer \in PromptAnswers :
                /\ prompts' = Append(prompts, "DecryptingToUse")
                /\ IF answer = PromptFailed
                   THEN /\ decrypted' = Some(PemErr("ReadUserPasswordFailed"))
                        /\ UNCHANGED typed
                   ELSE /\ decrypted' =
                              LET pem == Decrypt(encrypted[1].value, decryption_config[1],
                                                 answer)
                              IN Some(IF pem.status = "ok"
                                      THEN PemOk(pem.value, TRUE)
                                      ELSE pem)
                        /\ typed' = Append(typed, answer)
          ELSE /\ decrypted' = Some(PemOk(encrypted[1].value, FALSE))
               /\ UNCHANGED <<prompts, typed>>
    /\ pem_pos' = IF decrypted'[1].status = "panic" THEN "panicked" ELSE "decrypted"
    /\ UNCHANGED <<pem_content, identity_config, encrypted>>
    /\ UNCHANGED <<rvars, bvars, ivars, cvars, nvars, more>>

InitPem ==
    /\ CoreIdle
    /\ MoreIdle
    /\ IdlIdle
    /\ ConfigPathIdle
    /\ NetworkIdle
    /\ pem_content \in PemContents
    /\ identity_config \in {None} \cup {Some(c) : c \in IdentityConfigurations}
    /\ pem_pos = "start"
    /\ encrypted = None
    /\ decrypted = None
    /\ prompts = <<>>
    /\ typed = <<>>

NextPem ==
    \/ MaybeEncryptPem
    \/ MaybeDecryptPem

SpecPem == InitPem /\ [][NextPem]_vars

--------------------------------------------------------------------------
\* dfinity.rs: Config::resolve_config_path
\*
\* A path is the sequence of its components below the file system root, <<>>.

\* Bound on the depth of the directory tree.
MaxDepth == 2

\* Bound on the number of directories that have something named dfx.json.
MaxConfigs == 2

CONFIG_FILE_NAME == "dfx.json"

DirNames == {"p", "q"}

\* The directories that exist.
Directories == UNION {SeqsOfLen(DirNames, n) : n \in 0..MaxDepth}

\* The arguments: a directory, a directory through "..", or no directory.
WorkingDirs ==
    Directories
        \cup {Append(d, "..") : d \in Directories \ {<<>>}}
        \cup {<<"missing">>}

\* What is at dir/dfx.json in each directory: at most MaxConfigs have one.
ConfigFiles ==
    UNION { { [d \in Directories |-> IF d \in S THEN kinds[d] ELSE "none"]
                : kinds \in [S -> {"file", "dir"}] }
            : S \in {T \in SUBSET Directories : Cardinality(T) <= MaxConfigs} }

\* Path::parent(): None for the root.
Parent(path_) == IF path_ = <<>> THEN None ELSE Some(SubSeq(path_, 1, Len(path_) - 1))

\* Path::canonicalize(): ".." is resolved; a path that leads nowhere is an error.
RECURSIVE Resolve(_, _)
Resolve(done, rest) ==
    IF rest = <<>>
    THEN done
    ELSE IF Head(rest) = ".."
    THEN Resolve(IF done = <<>> THEN done ELSE SubSeq(done, 1, Len(done) - 1), Tail(rest))
    ELSE Resolve(Append(done, Head(rest)), Tail(rest))

Canonicalize(path_) ==
    IF \E i \in 1..Len(path_) :
          path_[i] # ".." /\ SubSeq(path_, 1, i) \notin Directories
    THEN None
    ELSE Some(Resolve(<<>>, path_))

\* Mutant: anything named dfx.json is taken for the configuration file.
ExistsAt(files, dir) == files[dir] # "none"

\* curr.join(CONFIG_FILE_NAME).is_file()
IsFileAt(files, dir) == files[dir] = "file"

CannotCanonicalize(path_) ==
    [kind |-> "FailedToCanonicalize", path |-> path_, name |-> None, context |-> <<>>]

\* PathBuf::from(working_dir).canonicalize().with_context(..)?
ResolveConfigPathStart ==
    /\ cpos = "start"
    /\ LET canonical == Canonicalize(working_dir)
       IN IF canonical = None
          THEN /\ config_path' = Some(Err(WithContext(CannotCanonicalize(working_dir),
                                                      "resolve_config_path", "working_dir")))
               /\ cpos' = "done"
               /\ UNCHANGED curr
          ELSE /\ curr' = canonical[1]
               /\ cpos' = "loop"
               /\ UNCHANGED config_path
    /\ UNCHANGED <<working_dir, config_files>>
    /\ UNCHANGED <<rvars, bvars, ivars, pvars, nvars, more>>

\* One test of `while curr.parent().is_some()` and one turn of the loop.
ResolveConfigPathLoop ==
    /\ cpos = "loop"
    /\ IF Parent(curr) # None
       THEN IF IsFileAt(config_files, curr)
            THEN /\ config_path' = Some(Ok(Some(Append(curr, CONFIG_FILE_NAME))))
                 /\ cpos' = "done"
                 /\ UNCHANGED curr
            ELSE /\ curr' = Parent(curr)[1]
                 /\ UNCHANGED <<cpos, config_path>>
       ELSE /\ cpos' = "root"
            /\ UNCHANGED <<curr, config_path>>
    /\ UNCHANGED <<working_dir, config_files>>
    /\ UNCHANGED <<rvars, bvars, ivars, pvars, nvars, more>>

\* After the loop: the configuration could be in the root.
ResolveConfigPathRoot ==
    /\ cpos = "root"
    /\ config_path' = IF IsFileAt(config_files, curr)
                       THEN Some(Ok(Some(Append(curr, CONFIG_FILE_NAME))))
                       ELSE Some(Ok(None))
    /\ cpos' = "done"
    /\ UNCHANGED <<working_dir, config_files, curr>>
    /\ UNCHANGED <<rvars, bvars, ivars, pvars, nvars, more>>

InitConfigPath ==
    /\ CoreIdle
    /\ MoreIdle
    /\ IdlIdle
    /\ PemIdle
    /\ NetworkIdle
    /\ working_dir \in WorkingDirs
    /\ config_files \in ConfigFiles
    /\ curr = <<>>
    /\ cpos = "start"
    /\ config_path = None

NextConfigPath ==
    \/ ResolveConfigPathStart
    \/ ResolveConfigPathLoop
    \/ ResolveConfigPathRoot

SpecConfigPath == InitConfigPath /\ [][NextConfigPath]_vars

--------------------------------------------------------------------------
\* dfinity.rs: ConfigNetwork and ConfigInterface::get_network

\* Bound on the number of networks dfx.json configures.
MaxNetworks == 1

DEFAULT_LOCAL_BIND == "127.0.0.1:8000"
DEFAULT_IC_GATEWAY == "https://ic0.app"

NetworkNames == {"local", "ic", "staging"}

\* The objects dfx.json can give for a network: each key present or not.
NetworkObjects ==
    [providers : {None, Some(<<"https://1.2.3.4:5000">>),
                  Some(<<"https://1.2.3.4:5000", "https://5.6.7.8:5000">>)},
     bind : {None, Some("localhost:8000"), Some(DEFAULT_LOCAL_BIND)},
     type : {None, Some("persistent"), Some("ephemeral"), Some("permanent")}]

\* The values of "networks": absent, or an object with at most MaxNetworks keys.
NetworksJson ==
    {None} \cup UNION { {Some(n) : n \in [S -> NetworkObjects]}
                        : S \in {T \in SUBSET NetworkNames : Cardinality(T) <= MaxNetworks} }

\* NetworkType with #[serde(rename_all = "lowercase")]
DeserializeNetworkType(text) ==
    IF text \in {"ephemeral", "persistent"} THEN Some(text) ELSE None

ConfigNetworkProvider(providers, type) ==
    [variant |-> "ConfigNetworkProvider", providers |-> providers, bind |-> "",
     type |-> type]

ConfigLocalProvider(bind, type) ==
    [variant |-> "ConfigLocalProvider", providers |-> <<>>, bind |-> bind, type |-> type]

\* A struct's `type` field: the serde default when the key is absent.
DeserializeTypeField(object, default) ==
    IF object.type = None THEN Some(default) ELSE DeserializeNetworkType(object.type[1])

\* #[serde(untagged)] enum ConfigNetwork: the first variant that deserializes.
DeserializeConfigNetwork(object) ==
    LET as_network == DeserializeTypeField(object, "persistent")
        as_local == DeserializeTypeField(object, "ephemeral")
    IN IF object.providers # None /\ as_network # None
       THEN Some(ConfigNetworkProvider(object.providers[1], as_network[1]))
       ELSE IF object.bind # None /\ as_local # None
       THEN Some(ConfigLocalProvider(object.bind[1], as_local[1]))
       ELSE None

\* Option<BTreeMap<String, ConfigNetwork>>, when every network deserializes.
DeserializeNetworks(json) ==
    IF json = None
    THEN None
    ELSE Some([n \in DOMAIN json[1] |-> DeserializeConfigNetwork(json[1][n])[1]])

\* Mutant: the built-in local network is returned whatever is configured.
GetNetworkLocalBuiltIn(configured, name) ==
    IF name = "local"
    THEN Some(ConfigLocalProvider(DEFAULT_LOCAL_BIND, "ephemeral"))
    ELSE IF name = "ic"
    THEN Some(ConfigNetworkProvider(<<DEFAULT_IC_GATEWAY>>, "persistent"))
    ELSE IF configured # None /\ name \in DOMAIN configured[1]
    THEN Some(configured[1][name])
    ELSE None

\* Mutant: a network configured under the name "ic" is returned as configured.
GetNetworkIcConfigured(configured, name) ==
    IF configured # None /\ name \in DOMAIN configured[1]
    THEN Some(configured[1][name])
    ELSE IF name = "local"
    THEN Some(ConfigLocalProvider(DEFAULT_LOCAL_BIND, "ephemeral"))
    ELSE IF name = "ic"
    THEN Some(ConfigNetworkProvider(<<DEFAULT_IC_GATEWAY>>, "persistent"))
    ELSE None

\* ConfigInterface::get_network
GetNetwork(configured, name) ==
    LET found == IF configured # None /\ name \in DOMAIN configured[1]
                 THEN Some(configured[1][name])
                 ELSE None
    IN IF name = "local" /\ found = None
       THEN Some(ConfigLocalProvider(DEFAULT_LOCAL_BIND, "ephemeral"))
       ELSE IF name = "ic"
       THEN Some(ConfigNetworkProvider(<<DEFAULT_IC_GATEWAY>>, "persistent"))
       ELSE found

\* Config::from_str: serde_json::from_slice fails when a network matches no
\* variant of ConfigNetwork.
DeserializeConfig ==
    /\ npos = "start"
    /\ IF networks_json # None
          /\ \E n \in DOMAIN networks_json[1] :
                DeserializeConfigNetwork(networks_json[1][n]) = None
       THEN /\ npos' = "failed"
            /\ UNCHANGED networks
       ELSE /\ networks' = DeserializeNetworks(networks_json)
            /\ npos' = "parsed"
    /\ UNCHANGED <<networks_json, network_name, network>>
    /\ UNCHANGED <<rvars, bvars, ivars, pvars, cvars, more>>

\* config.get_config().get_network(name)
GetNetworkCall ==
    /\ npos = "parsed"
    /\ network' = Some(GetNetwork(networks, network_name))
    /\ npos' = "done"
    /\ UNCHANGED <<networks_json, networks, network_name>>
    /\ UNCHANGED <<rvars, bvars, ivars, pvars, cvars, more>>

InitNetwork ==
    /\ CoreIdle
    /\ MoreIdle
    /\ IdlIdle
    /\ PemIdle
    /\ ConfigPathIdle
    /\ networks_json \in NetworksJson
    /\ networks = None
    /\ network_name \in NetworkNames
    /\ npos = "start"
    /\ network = None

NextNetwork ==
    \/ DeserializeConfig
    \/ GetNetworkCall

SpecNetwork == InitNetwork /\ [][NextNetwork]_vars

(***************************************************************************)
(* lib/subnet.rs: get_subnet_for_canister                                  *)
(***************************************************************************)

\* The retry policy's elapsed-time budget, counted in queries.
MaxAttempts == 3

Principals == {"aaaaa-aa", "bbbbb-bb"}

RegistryErrorTexts == {"no routing table", "bad principal"}

\* ic_agent::AgentError, the variants that matter and two of the others
AgentErrors ==
    {"TimeoutWaitingForResponse", "TransportError", "HttpError", "CertificateVerificationFailed"}

\* Result<Result<GetSubnetForCanisterResponse, String>, AgentError>
ReplyOk(subnet_id) ==
    [tag |-> "Ok(Ok)", subnet_id |-> subnet_id, text |-> "", agent_err |-> ""]
ReplyErr(text) ==
    [tag |-> "Ok(Err)", subnet_id |-> None, text |-> text, agent_err |-> ""]
CallErr(agent_err) ==
    [tag |-> "Err", subnet_id |-> None, text |-> "", agent_err |-> agent_err]

QueryResults ==
    {ReplyOk(Some(p)) : p \in Principals} \cup {ReplyOk(None)}
        \cup {ReplyErr(t) : t \in RegistryErrorTexts}
        \cup {CallErr(e) : e \in AgentErrors}

\* anyhow!(..) as the message and what it is formatted with
Anyhow(message, detail) == [message |-> message, detail |-> detail]
NoAnyhow == Anyhow("", "")

SubnetOk(subnet_id) == [ok |-> TRUE, subnet_id |-> subnet_id, err |-> NoAnyhow]
SubnetErr(e) == [ok |-> FALSE, subnet_id |-> "", err |-> e]

\* backoff::Error::permanent / backoff::Error::transient
Permanent(e) == [ok |-> FALSE, transient |-> FALSE, subnet_id |-> "", err |-> e]
Transient(e) == [ok |-> FALSE, transient |-> TRUE, subnet_id |-> "", err |-> e]
Done(subnet_id) == [ok |-> TRUE, transient |-> FALSE, subnet_id |-> subnet_id, err |-> NoAnyhow]

RetryableAlways(agent_error) == TRUE

\* retryable(&agent_err)
Retryable(agent_error) ==
    agent_error \in {"TimeoutWaitingForResponse", "TransportError"}

\* The closure handed to retry: what it makes of the query's query_result.
Attempt(query_result, canister_id) ==
    IF query_result.tag = "Ok(Ok)" /\ query_result.subnet_id # None
    THEN Done(query_result.subnet_id[1])
    ELSE IF query_result.tag = "Ok(Ok)"
    THEN Permanent(Anyhow("no subnet found for canister {}", canister_id))
    ELSE IF query_result.tag = "Ok(Err)"
    THEN Permanent(Anyhow("unable to determine subnet: {}", query_result.text))
    ELSE IF Retryable(query_result.agent_err)
    THEN Transient(Anyhow("{}", query_result.agent_err))
    ELSE Permanent(Anyhow("{}", query_result.agent_err))

\* One round of backoff::future::retry: the query is sent, its query_result is
\* matched, and Ok or a permanent error ends the operation.
SubnetQuery ==
    /\ spos = "query"
    /\ \E query_result \in QueryResults :
         LET outcome == Attempt(query_result, subnet_canister) IN
         /\ attempts' = Append(attempts, query_result)
         /\ IF outcome.ok
            THEN /\ subnet' = Some(SubnetOk(outcome.subnet_id))
                 /\ spos' = "done"
            ELSE IF outcome.transient
            THEN /\ subnet' = Some(SubnetErr(outcome.err))
                 /\ spos' = "backoff"
            ELSE /\ subnet' = Some(SubnetErr(outcome.err))
                 /\ spos' = "done"
    /\ UNCHANGED subnet_canister
    /\ UNCHANGED <<rvars, bvars, ivars, pvars, cvars, nvars, kvars, tvars, xvars>>

\* backoff.next_backoff() is Some(duration): sleep, then run the closure again.
SubnetRetry ==
    /\ spos = "backoff"
    /\ Len(attempts) < MaxAttempts
    /\ spos' = "query"
    /\ subnet' = None
    /\ UNCHANGED <<subnet_canister, attempts>>
    /\ UNCHANGED <<rvars, bvars, ivars, pvars, cvars, nvars, kvars, tvars, xvars>>

\* backoff.next_backoff() is None (max_elapsed_time is over): the transient
\* error is returned.
SubnetGiveUp ==
    /\ spos = "backoff"
    /\ spos' = "done"
    /\ UNCHANGED <<subnet_canister, attempts, subnet>>
    /\ UNCHANGED <<rvars, bvars, ivars, pvars, cvars, nvars, kvars, tvars, xvars>>

\* The registry canister is built (agent and canister id are both given, so
\* build() succeeds) and retry is entered.
InitSubnet ==
    /\ CoreIdle
    /\ IdlIdle
    /\ PemIdle
    /\ ConfigPathIdle
    /\ NetworkIdle
    /\ SafekeepingIdle
    /\ PropertiesIdle
    /\ TransferIdle
    /\ subnet_canister \in Principals
    /\ attempts = <<>>
    /\ spos = "query"
    /\ subnet = None

NextSubnet ==
    \/ SubnetQuery
    \/ SubnetRetry
    \/ SubnetGiveUp

SpecSubnet == InitSubnet /\ [][NextSubnet]_vars

(***************************************************************************)
(* identity/pem_safekeeping.rs: save_pem and load_pem                      *)
(***************************************************************************)

IdentityNames == {"alice", "bob"}

\* IdentityConfiguration { hsm, encryption, keyring_identity_suffix }
StoredIdentityConfigurations ==
    [hsm : {None, Some("pkcs11")},
     encryption : {None} \cup {Some(e) : e \in EncryptionConfigurations},
     keyring_identity_suffix : {None} \cup {Some(n) : n \in IdentityNames}]

\* locations.get_identity_pem_path(name, config): a file of the identity's
\* directory, named after whether the configuration asks for encryption.
GetIdentityPemPath(name, config) ==
    [identity |-> name,
     file |-> IF config.encryption # None THEN "identity.pem.encrypted" ELSE "identity.pem"]

PemPaths == {GetIdentityPemPath(n, c) : n \in IdentityNames, c \in StoredIdentityConfigurations}

\* keyring_mock::write_pem_to_keyring(key, pem_content): the entry of the key
\* is set.
WritePemToKeyring(store, key, content) == [store EXCEPT ![key] = Some(content)]

\* keyring_mock::load_pem_from_keyring(key): the entry of the key, if any.
LoadPemFromKeyring(store, key) == store[key]

\* The keyring before save_pem: empty, or holding an older PEM of one identity.
Keyrings ==
    {[k \in IdentityNames |-> None]}
        \cup {[k \in IdentityNames |-> IF k = n THEN Some(Raw(<<1, 0, 1>>)) ELSE None]
                : n \in IdentityNames}

\* maybe_encrypt_pem as a function of the content, the configuration and what
\* the password prompt returns.
MaybeEncryptPemWith(content, config, answer) ==
    IF config.encryption = None
    THEN PemOk(content, FALSE)
    ELSE IF answer = PromptFailed
    THEN PemErr("ReadUserPasswordFailed")
    ELSE Encrypt(content, config.encryption[1], answer)

\* maybe_decrypt_pem as a function of the same.
MaybeDecryptPemWith(content, config, answer) ==
    IF config.encryption = None
    THEN PemOk(content, FALSE)
    ELSE IF answer = PromptFailed
    THEN PemErr("ReadUserPasswordFailed")
    ELSE LET pem == Decrypt(content, config.encryption[1], answer)
         IN IF pem.status = "ok" THEN PemOk(pem.value, TRUE) ELSE pem

\* The password prompt is shown only for a configuration with encryption.
AnswersFor(config) == IF config.encryption = None THEN {""} ELSE PromptAnswers

SaveKeyringSuffix(config) == config.keyring_identity_suffix[1]

\* save_pem(log, locations, name, identity_config, pem_content)
SavePem ==
    /\ kpos = "start"
    /\ IF safe_config.hsm # None
       THEN /\ saved' = Some(PemErr("Cannot save PEM content for an HSM."))
            /\ UNCHANGED <<keyring, pem_files, stored_key>>
       ELSE IF safe_config.keyring_identity_suffix # None
       THEN \E written \in BOOLEAN :
               IF written
               THEN /\ keyring' = WritePemToKeyring(keyring, SaveKeyringSuffix(safe_config),
                                                    safe_content)
                    /\ stored_key' = Some(SaveKeyringSuffix(safe_config))
                    /\ saved' = Some(PemOk(Raw(<<>>), FALSE))
                    /\ UNCHANGED pem_files
               ELSE /\ saved' = Some(PemErr("WritePemToKeyringFailed"))
                    /\ UNCHANGED <<keyring, pem_files, stored_key>>
       ELSE \E answer \in AnswersFor(safe_config), written \in BOOLEAN :
               LET pem_path == GetIdentityPemPath(safe_name, safe_config)
                   pem == MaybeEncryptPemWith(safe_content, safe_config, answer)
               IN /\ IF pem.status = "panic"
                     THEN /\ saved' = Some(PemPanic)
                          /\ UNCHANGED pem_files
                     ELSE IF pem.status = "err"
                     THEN /\ saved' = Some(PemErr("EncryptPemFileFailed"))
                          /\ UNCHANGED pem_files
                     ELSE IF written
                     THEN /\ pem_files' = [pem_files EXCEPT ![pem_path] = Some(pem.value)]
                          /\ saved' = Some(PemOk(Raw(<<>>), FALSE))
                     ELSE /\ saved' = Some(PemErr("WritePemFileFailed"))
                          /\ UNCHANGED pem_files
                  /\ UNCHANGED <<keyring, stored_key>>
    /\ kpos' = IF saved'[1].status = "panic" THEN "panicked" ELSE "saved"
    /\ UNCHANGED <<safe_name, safe_config, safe_content, loaded, looked_up_key>>
    /\ UNCHANGED <<rvars, bvars, ivars, pvars, cvars, nvars, svars, tvars, xvars>>

\* load_pem(log, locations, identity_name, identity_config)
LoadPem ==
    /\ kpos = "saved"
    /\ IF safe_config.hsm # None
       THEN /\ loaded' = Some(PemPanic)
            /\ UNCHANGED looked_up_key
       ELSE IF safe_config.keyring_identity_suffix # None
       THEN LET pem == LoadPemFromKeyring(keyring, safe_name)
            IN /\ looked_up_key' = Some(safe_name)
               /\ loaded' = Some(IF pem = None
                                 THEN PemErr("LoadPemFromKeyringFailed")
                                 ELSE PemOk(pem[1], TRUE))
       ELSE \E answer \in AnswersFor(safe_config) :
               LET content == pem_files[GetIdentityPemPath(safe_name, safe_config)]
               IN /\ loaded' = Some(IF content = None
                                    THEN PemErr("ReadPemFileFailed")
                                    ELSE LET pem == MaybeDecryptPemWith(content[1],
                                                                        safe_config, answer)
                                         IN IF pem.status = "err"
                                            THEN PemErr("DecryptPemFileFailed")
                                            ELSE pem)
                  /\ UNCHANGED looked_up_key
    /\ kpos' = IF loaded'[1].status = "panic" THEN "panicked" ELSE "loaded"
    /\ UNCHANGED <<safe_name, safe_config, safe_content, keyring, pem_files, saved, stored_key>>
    /\ UNCHANGED <<rvars, bvars, ivars, pvars, cvars, nvars, svars, tvars, xvars>>

InitSafekeeping ==
    /\ CoreIdle
    /\ IdlIdle
    /\ PemIdle
    /\ ConfigPathIdle
    /\ NetworkIdle
    /\ SubnetIdle
    /\ PropertiesIdle
    /\ TransferIdle
    /\ safe_name \in IdentityNames
    /\ safe_config \in StoredIdentityConfigurations
    /\ safe_content \in PemContents
    /\ keyring \in Keyrings
    /\ pem_files = [p \in PemPaths |-> None]
    /\ saved = None
    /\ loaded = None
    /\ stored_key = None
    /\ looked_up_key = None
    /\ kpos = "start"

NextSafekeeping ==
    \/ SavePem
    \/ LoadPem

SpecSafekeeping == InitSafekeeping /\ [][NextSafekeeping]_vars

(***************************************************************************)
(* config/dfinity.rs: CanisterTypeProperties and its Deserialize           *)
(***************************************************************************)

\* JSON values of the three kinds a field is given
JsonString(text) == [kind |-> "string", text |-> text]
JsonArray(text) == [kind |-> "array", text |-> text]
JsonNumber == [kind |-> "number", text |-> "7"]

TypeTags == {"motoko", "rust", "assets", "custom", "Rust"}

\* The keys visit_map matches, and one it does not.
PropertyKeys == {"package", "source", "candid", "build", "wasm", "type", "main"}

\* The objects a canister of dfx.json can be: each key present or not, some
\* with a value of another type than the field's.
PropertyObjects ==
    [package : {None, Some(JsonString("hello")), Some(JsonNumber)},
     source : {None, Some(JsonArray("dist/")), Some(JsonString("dist/"))},
     candid : {None, Some(JsonString("hello.did"))},
     build : {None, Some(JsonArray("make"))},
     wasm : {None, Some(JsonString("hello.wasm")), Some(JsonNumber)},
     type : {None, Some(JsonNumber)} \cup {Some(JsonString(t)) : t \in TypeTags},
     main : {None, Some(JsonString("main.mo"))}]

\* The type parameter of map.next_value() for each key.
ValueKind(key) == IF key \in {"source", "build"} THEN "array" ELSE "string"

\* map.next_value::<T>(): Some(value), or None for a value that is no T.
NextValue(key, value) ==
    IF value.kind = ValueKind(key) THEN Some(value.text) ELSE None

NoProperties ==
    [variant |-> "", package |-> "", candid |-> "", source |-> "", wasm |-> "", build |-> ""]

Motoko == [NoProperties EXCEPT !.variant = "Motoko"]
Rust(package, candid) ==
    [NoProperties EXCEPT !.variant = "Rust", !.package = package, !.candid = candid]
Assets(source) == [NoProperties EXCEPT !.variant = "Assets", !.source = source]
Custom(wasm_path, candid, build) ==
    [NoProperties EXCEPT !.variant = "Custom", !.wasm = wasm_path, !.candid = candid,
                         !.build = build]

\* serde::de::Error
NoDeError == [kind |-> "", what |-> ""]
MissingField(field) == [kind |-> "missing_field", what |-> field]
UnknownVariant(x) == [kind |-> "unknown_variant", what |-> x]
InvalidType(key) == [kind |-> "invalid_type", what |-> key]

PropsOk(p) == [ok |-> TRUE, props |-> p, error |-> NoDeError]
PropsErr(e) == [ok |-> FALSE, props |-> NoProperties, error |-> e]

\* let (mut package, mut source, mut candid, mut build, mut wasm, mut r#type)
NothingCollected ==
    [package |-> None, source |-> None, candid |-> None, build |-> None, wasm |-> None,
     type |-> None]

MatchTypeUnknownIsMotoko(c) ==
    IF c.type \in {None, Some("motoko")} THEN PropsOk(Motoko)
    ELSE IF c.type = Some("rust")
    THEN IF c.candid = None THEN PropsErr(MissingField("candid"))
         ELSE IF c.package = None THEN PropsErr(MissingField("package"))
         ELSE PropsOk(Rust(c.package[1], c.candid[1]))
    ELSE IF c.type = Some("assets")
    THEN IF c.source = None THEN PropsErr(MissingField("source"))
         ELSE PropsOk(Assets(c.source[1]))
    ELSE IF c.type = Some("custom")
    THEN IF c.build = None THEN PropsErr(MissingField("build"))
         ELSE IF c.candid = None THEN PropsErr(MissingField("candid"))
         ELSE IF c.wasm = None THEN PropsErr(MissingField("wasm"))
         ELSE PropsOk(Custom(c.wasm[1], c.candid[1], c.build[1]))
    ELSE PropsOk(Motoko)

\* let props = match r#type.as_deref() { .. }
MatchType(c) ==
    IF c.type \in {None, Some("motoko")} THEN PropsOk(Motoko)
    ELSE IF c.type = Some("rust")
    THEN IF c.candid = None THEN PropsErr(MissingField("candid"))
         ELSE IF c.package = None THEN PropsErr(MissingField("package"))
         ELSE PropsOk(Rust(c.package[1], c.candid[1]))
    ELSE IF c.type = Some("assets")
    THEN IF c.source = None THEN PropsErr(MissingField("source"))
         ELSE PropsOk(Assets(c.source[1]))
    ELSE IF c.type = Some("custom")
    THEN IF c.build = None THEN PropsErr(MissingField("build"))
         ELSE IF c.candid = None THEN PropsErr(MissingField("candid"))
         ELSE IF c.wasm = None THEN PropsErr(MissingField("wasm"))
         ELSE PropsOk(Custom(c.wasm[1], c.candid[1], c.build[1]))
    ELSE PropsErr(UnknownVariant(c.type[1]))

\* CanisterTypeProperties::name
Name(p) ==
    CASE p.variant = "Rust" -> "rust"
      [] p.variant = "Motoko" -> "motoko"
      [] p.variant = "Assets" -> "assets"
      [] p.variant = "Custom" -> "custom"

\* One round of `while let Some(key) = map.next_key::<String>()?`: the keys
\* come in the order of the document, which is any order.
VisitMapEntry ==
    /\ tpos = "keys"
    /\ \E key \in unvisited :
         /\ unvisited' = unvisited \ {key}
         /\ IF key \in DOMAIN NothingCollected
            THEN LET value == NextValue(key, type_object[key][1])
                 IN IF value = None
                    THEN /\ props' = Some(PropsErr(InvalidType(key)))
                         /\ tpos' = "done"
                         /\ UNCHANGED fields
                    ELSE /\ fields' = [fields EXCEPT ![key] = value]
                         /\ UNCHANGED <<props, tpos>>
            ELSE UNCHANGED <<fields, props, tpos>>
    /\ UNCHANGED <<type_object, type_name>>
    /\ UNCHANGED <<rvars, bvars, ivars, pvars, cvars, nvars, svars, kvars, xvars>>

\* map.next_key() is None: the type is matched and the result returned.
VisitMapEnd ==
    /\ tpos = "keys"
    /\ unvisited = {}
    /\ props' = Some(MatchType(fields))
    /\ tpos' = "done"
    /\ UNCHANGED <<type_object, unvisited, fields, type_name>>
    /\ UNCHANGED <<rvars, bvars, ivars, pvars, cvars, nvars, svars, kvars, xvars>>

\* name() of the properties parsed.
NameCall ==
    /\ tpos = "done"
    /\ props[1].ok
    /\ type_name' = Some(Name(props[1].props))
    /\ tpos' = "named"
    /\ UNCHANGED <<type_object, unvisited, fields, props>>
    /\ UNCHANGED <<rvars, bvars, ivars, pvars, cvars, nvars, svars, kvars, xvars>>

InitProperties ==
    /\ CoreIdle
    /\ IdlIdle
    /\ PemIdle
    /\ ConfigPathIdle
    /\ NetworkIdle
    /\ SubnetIdle
    /\ SafekeepingIdle
    /\ TransferIdle
    /\ type_object \in PropertyObjects
    /\ unvisited = {k \in PropertyKeys : type_object[k] # None}
    /\ fields = NothingCollected
    /\ props = None
    /\ type_name = None
    /\ tpos = "keys"

NextProperties ==
    \/ VisitMapEntry
    \/ VisitMapEnd
    \/ NameCall

SpecProperties == InitProperties /\ [][NextProperties]_vars

(***************************************************************************)
(* commands/cycles/transfer.rs: exec                                       *)
(***************************************************************************)

\* Bound on the clock and on --created-at-time, in nanoseconds.
MaxNanos == 3

\* u64 is scaled down: the modulus stands for 2^64.
U64Modulus == 8

\* The system clock, in nanoseconds since UNIX_EPOCH: -1 is a clock set
\* before the epoch.
Clocks == -1..MaxNanos

TransferPrincipals == {"2vxsx-fae"}

\* TransferOpts: the options exec branches on, and the destination.
TransferOptions ==
    [to : TransferPrincipals,
     from : {None} \cup {Some(p) : p \in TransferPrincipals},
     created_at_time : {None} \cup {Some(t) : t \in 0..MaxNanos}]

\* .as_nanos() as u64
AsU64(nanos) == nanos % U64Modulus

\* What the ledger call returns: a block index, or an error.
LedgerResults ==
    {[ok |-> TRUE, block_index |-> 42, error |-> ""],
     [ok |-> FALSE, block_index |-> 0, error |-> "InsufficientFunds"],
     [ok |-> FALSE, block_index |-> 0, error |-> "TooOld"]}

ExecOk == [status |-> "ok", error |-> ""]
ExecErr(e) == [status |-> "err", error |-> e]
ExecPanic == [status |-> "panic", error |-> ""]

\* cycles_ledger::transfer_from(..) / cycles_ledger::transfer(..)
LedgerCall(options, timestamp) ==
    IF options.from # None
    THEN [fn |-> "transfer_from", from |-> options.from, to |-> options.to,
          created_at_time |-> timestamp]
    ELSE [fn |-> "transfer", from |-> None, to |-> options.to,
          created_at_time |-> timestamp]

HintOnEveryFailure(transfer_result, options) == ~transfer_result.ok

\* result.is_err() && opts.created_at_time.is_none()
HintNeeded(transfer_result, options) ==
    ~transfer_result.ok /\ options.created_at_time = None

\* fetch_root_key_if_needed(env).await?
ExecFetchRootKey ==
    /\ xpos = "start"
    /\ \E fetched \in BOOLEAN :
         IF fetched
         THEN /\ xpos' = "time"
              /\ UNCHANGED exec_result
         ELSE /\ xpos' = "done"
              /\ exec_result' = Some(ExecErr("FetchRootKeyFailed"))
    /\ UNCHANGED <<transfer_opts, clock, created_at_time, ledger_calls, ledger_result,
                   hints, printed>>
    /\ UNCHANGED <<rvars, bvars, ivars, pvars, cvars, nvars, svars, kvars, tvars>>

\* let created_at_time = opts.created_at_time.unwrap_or(SystemTime::now()..):
\* the argument of unwrap_or is evaluated first, and its unwrap() panics for
\* a clock before the epoch.
ExecCreatedAtTime ==
    /\ xpos = "time"
    /\ IF clock < 0
       THEN /\ exec_result' = Some(ExecPanic)
            /\ xpos' = "panicked"
            /\ UNCHANGED created_at_time
       ELSE /\ created_at_time' = IF transfer_opts.created_at_time # None
                                  THEN transfer_opts.created_at_time
                                  ELSE Some(AsU64(clock))
            /\ xpos' = "transfer"
            /\ UNCHANGED exec_result
    /\ UNCHANGED <<transfer_opts, clock, ledger_calls, ledger_result, hints, printed>>
    /\ UNCHANGED <<rvars, bvars, ivars, pvars, cvars, nvars, svars, kvars, tvars>>

\* let result = if let Some(from_owner) = opts.from { .. } else { .. }
ExecTransfer ==
    /\ xpos = "transfer"
    /\ ledger_calls' = Append(ledger_calls, LedgerCall(transfer_opts, created_at_time[1]))
    /\ \E r \in LedgerResults : ledger_result' = Some(r)
    /\ xpos' = "report"
    /\ UNCHANGED <<transfer_opts, clock, created_at_time, hints, printed, exec_result>>
    /\ UNCHANGED <<rvars, bvars, ivars, pvars, cvars, nvars, svars, kvars, tvars>>

\* The warning, `result?`, the println and Ok(()).
ExecReport ==
    /\ xpos = "report"
    /\ hints' = IF HintNeeded(ledger_result[1], transfer_opts)
                THEN Append(hints, created_at_time[1])
                ELSE hints
    /\ IF ledger_result[1].ok
       THEN /\ printed' = Append(printed, ledger_result[1].block_index)
            /\ exec_result' = Some(ExecOk)
       ELSE /\ exec_result' = Some(ExecErr(ledger_result[1].error))
            /\ UNCHANGED printed
    /\ xpos' = "done"
    /\ UNCHANGED <<transfer_opts, clock, created_at_time, ledger_calls, ledger_result>>
    /\ UNCHANGED <<rvars, bvars, ivars, pvars, cvars, nvars, svars, kvars, tvars>>

InitTransfer ==
    /\ CoreIdle
    /\ IdlIdle
    /\ PemIdle
    /\ ConfigPathIdle
    /\ NetworkIdle
    /\ SubnetIdle
    /\ SafekeepingIdle
    /\ PropertiesIdle
    /\ transfer_opts \in TransferOptions
    /\ clock \in Clocks
    /\ created_at_time = None
    /\ ledger_calls = <<>>
    /\ ledger_result = None
    /\ hints = <<>>
    /\ printed = <<>>
    /\ exec_result = None
    /\ xpos = "start"

NextTransfer ==
    \/ ExecFetchRootKey
    \/ ExecCreatedAtTime
    \/ ExecTransfer
    \/ ExecReport

SpecTransfer == InitTransfer /\ [][NextTransfer]_vars

--------------------------------------------------------------------------
\* The declared dependency graph, read from dfx.json directly.

Declared == IF canisters = None THEN {} ELSE DOMAIN canisters[1]

Listed(p) == IF p \in Declared THEN Range(canisters[1][p].dependencies) ELSE {}

\* p lists d.
Edge(p, d) == d \in Listed(p)

\* The names reachable from the set S through declared dependencies, S included.
RECURSIVE ReachFrom(_)
ReachFrom(S) ==
    LET T == S \cup UNION {Listed(p) : p \in S}
    IN IF T = S THEN S ELSE ReachFrom(T)

\* The dependencies of p, transitively.
DependenciesOf(p) == ReachFrom(Listed(p))

AllResolve == \A p \in Declared : Listed(p) \subseteq Declared

Acyclic == \A p \in Declared : p \notin DependenciesOf(p)

ResolveDone == rpc = "done" /\ canisters # None

Succeeded == result # None /\ result[1].ok

Failed == result # None /\ ~result[1].ok

Returned == result[1].value

Error == result[1].err

IndexOf(s, x) == CHOOSE i \in 1..Len(s) : s[i] = x

\* s is a walk of the dependency graph.
IsWalk(s) == \A i \in 1..(Len(s) - 1) : Edge(s[i], s[i + 1])

NoDuplicates(s) == Cardinality(Range(s)) = Len(s)

Cycle2(A, B) == A # B /\ Edge(A, B) /\ Edge(B, A)

\* The names from which the focus walk can start, and everything under them.
FocusReach == IF some_canister = None THEN {} ELSE ReachFrom({some_canister[1]})

\* The canisters reachable from the focus that lie on a cycle.
OnReachableCycle == {n \in FocusReach : n \in DependenciesOf(n)}

\* The payload is a walk from the focus that ends by repeating one of its names.
IsCyclePayload(p) ==
    /\ Len(p) >= 2
    /\ p[1] = some_canister[1]
    /\ IsWalk(p)
    /\ NoDuplicates(SubSeq(p, 1, Len(p) - 1))
    /\ p[Len(p)] \in Range(SubSeq(p, 1, Len(p) - 1))

ListsUndeclared(P, D) == P \in Declared /\ Edge(P, D) /\ D \notin Declared

\* The error is a not-found error naming D and, next in its context, P.
NamesBoth(e, P, D) ==
    /\ e.kind = "CannotFindCanister"
    /\ e.name = Some(D)
    /\ Len(e.context) >= 2
    /\ e.context[1] = [fn |-> "add_dependencies", name |-> D]
    /\ e.context[2] = [fn |-> "add_dependencies", name |-> P]

C10_PathStartsAtRepeatedName ==
    (ResolveDone /\ Failed /\ Error.kind = "DependencyError") =>
        /\ Error.path[1] = Error.path[Len(Error.path)]
        /\ NoDuplicates(SubSeq(Error.path, 2, Len(Error.path)))

\* C10 amended: the path carried by a cycle error is the whole traversal path
\* with the repeated name appended: it starts at the focus canister, follows
\* declared dependencies, and ends with a name that occurs exactly once
\* earlier in it; the names before that occurrence are part of the payload.
C10_PathIsTraversalPath ==
    (ResolveDone /\ Failed /\ Error.kind = "DependencyError") =>
        /\ IsCyclePayload(Error.path)
        /\ Error.path = path
        /\ Error.context[1] =
              [fn |-> "add_dependencies", name |-> Error.path[Len(Error.path)]]

\* The focus lies outside the cycle and still heads the payload.
C10_Witness ==
    /\ ResolveDone /\ Failed /\ Error.kind = "DependencyError"
    /\ Len(Error.path) >= 3
    /\ Error.path[1] # Error.path[Len(Error.path)]

----------------------------------------------------------------\* One focused resolution per declared canister.
FocusedRuns == [c \in Declared |-> FocusedRun(canisters[1], c)]

AllFocusedRunsSucceed == \A c \in Declared : ~FocusedRuns[c].failed

UnionOfFocusedRuns == UNION {FocusedRuns[c].names : c \in Declared}

Unfocused == ResolveDone /\ some_canister = None

Focused == ResolveDone /\ some_canister # None

\* What the stepwise resolution returns is what the function computes.
StepwiseIsFocusedRun ==
    Focused =>
        LET run == FocusedRun(canisters[1], some_canister[1])
        IN /\ Failed <=> run.failed
           /\ Succeeded => Range(Returned) = run.names

C12_FocusedReturnsReachable ==
    (Focused /\ Succeeded) =>
        /\ Range(Returned) = ReachFrom({some_canister[1]})
        /\ NoDuplicates(Returned)

\* A focused resolution that returned the focus with one dependency and left
\* an unreachable canister out.
C12_Witness ==
    /\ Focused
    /\ Succeeded
    /\ Len(Returned) = 2
    /\ Listed(some_canister[1]) # {}
    /\ Declared \ Range(Returned) # {}

\* The place of a name in the order of the keys of dfx.json's canister map.
KeyIndex(n) == IndexOf(KeyOrder, n)

\* Neither depends on the other.
Independent(p, q) == p \notin DependenciesOf(q) /\ q \notin DependenciesOf(p)

InKeyOrder(s) == \A i, j \in 1..Len(s) : i < j => KeyIndex(s[i]) < KeyIndex(s[j])

ResolvedTwice == ResolveDone /\ previous # None

----------
\* RustBuilder.build

BuildReturned == bpc = "returned" /\ build_result # None

BuildSucceeded == BuildReturned /\ build_result[1].ok

BuildFailed == BuildReturned /\ ~build_result[1].ok

\* The external tool was run for the canister.
Ran(tool, name) == \E i \in 1..Len(events) : events[i] = Event(tool, name)

\* get_dependencies returns an error for the canister being built.
DependenciesUnresolved ==
    GetDependencies(canister_ids, canisters[1][cur], cur).status = "err"

\* The error carries the name of the canister being built.
Annotated(e) == [fn |-> "build", name |-> cur] \in Range(e.context)

\* C4 as stated: whenever build runs the compiler for a package, the
\* environment given to the compiler has, for every declared dependency that
\* has an assigned identifier, an entry whose value is that identifier,
\* whatever the package's other dependencies are.
C4_EnvironmentInjection ==
    (cur \in Canisters /\ Ran("cargo", cur)) =>
        \A bar \in Listed(cur) \cap Canisters :
            canister_ids[bar] # None =>
                <<EnvName[bar], Principal[bar]>> \in cargo_env

\* C5 as stated: when get_dependencies fails for the package, build returns
\* an error and does not run the compiler.
C5_UnresolvedDependencyIsHardFailure ==
    (cur \in Canisters /\ bpc \notin {"idle", "entry"} /\ DependenciesUnresolved) =>
        /\ ~Ran("cargo", cur)
        /\ cargo_status[cur] = "none"
        /\ BuildReturned => BuildFailed

C7_CompileFailureIsError ==
    (cur \in Canisters /\ cargo_status[cur] = "failure") =>
        /\ bpc \in {"probe", "optimizer", "check", "returned", "idle"}
        /\ bpc = "returned" => BuildFailed
        /\ build_result # None =>
            /\ ~build_result[1].ok
            /\ build_result[1].err.kind = "CompileFailed"
            /\ build_result[1].err.name = Some(Package[cur])
            /\ Annotated(build_result[1].err)
        /\ build_outputs[cur] = None
        /\ results[cur] # "ok"

\* The compiler failed, the optimizer then succeeded on the module an earlier
\* build had left, and build returned the failure.
C7_Witness ==
    /\ BuildFailed
    /\ cargo_status[cur] = "failure"
    /\ optimizer = "success"

C9_FailuresAreErrorValues ==
    /\ BuildFailed => Annotated(build_result[1].err)
    /\ (cur \in Canisters /\ bpc \notin {"idle", "entry"} /\ canister_ids[cur] = None) =>
            BuildFailed

\* A dependency name the pool cannot turn into an identifier.
Unresolvable(d) == d \notin DOMAIN canister_ids \/ canister_ids[d] = None

\* C14 as stated: get_dependencies returns, on success, the assigned
\* identifier of each declared dependency in declaration order; it fails
\* naming the dependency at the first name that has no canister in the pool,
\* and fails with another error when that canister exists without identifier.
C14_GetDependenciesContract ==
    deps_returned # None =>
        LET r == deps_returned[1].outcome
            deps == canisters[1][deps_returned[1].canister].dependencies
            bad == {i \in 1..Len(deps) : Unresolvable(deps[i])}
        IN IF bad = {}
           THEN /\ r.status = "ok"
                /\ Len(r.value) = Len(deps)
                /\ \A i \in 1..Len(deps) : r.value[i] = canister_ids[deps[i]][1]
           ELSE LET k == CHOOSE i \in bad : \A j \in bad : i <= j
                IN /\ r.status = "err"
                   /\ IF deps[k] \notin DOMAIN canister_ids
                      THEN /\ r.err.kind = "CanisterNotInProject"
                           /\ r.err.name = Some(deps[k])
                      ELSE r.err.kind # "CanisterNotInProject"

\* C20 as stated: neither the optimizer nor the metadata embedding is ever run
\* on the module of a canister whose compiler exited with a non-zero status.
C20_PostProcessingOnlyAfterSuccessfulCompile ==
    \A i \in 1..Len(events) :
        events[i].tool \in {"ic-cdk-optimizer", "add_candid_service_metadata"}
            => cargo_status[events[i].canister] = "success"

HasEncryption == identity_config # None /\ identity_config[1].encryption # None

\* The configuration's salt and nonce are ones EncryptionConfiguration::new()
\* can produce: a salt Argon2 accepts and a nonce of 96 bits.
WellFormed(config) ==
    /\ HashPassword(GetArgonParams, "", config.pw_salt) # None
    /\ NonceFits(config.file_nonce)

\* The same password was given to encrypt and, if it has run, to decrypt.
SamePassword == typed # <<>> /\ \A i \in 1..Len(typed) : typed[i] = typed[1]

\* C16 as stated: for every password, content and encryption configuration,
\* encrypt succeeds and decrypt of its result with the same configuration and
\* password succeeds and returns the content.
C16_DecryptRevertsEncrypt ==
    (HasEncryption /\ SamePassword) =>
        /\ pem_pos # "panicked"
        /\ encrypted[1].status = "ok"
        /\ Len(typed) = 2 => (decrypted[1].status = "ok" /\ decrypted[1].value = pem_content)

\* C16 amended: the same for every encryption configuration whose salt is
\* accepted by Argon2 and whose nonce has 96 bits.
C16_DecryptRevertsEncryptWellFormed ==
    (HasEncryption /\ SamePassword /\ WellFormed(identity_config[1].encryption[1])) =>
        /\ pem_pos # "panicked"
        /\ encrypted[1].status = "ok"
        /\ Len(typed) = 2 => (decrypted[1].status = "ok" /\ decrypted[1].value = pem_content)

\* A non-empty content was encrypted and decrypted with the same non-empty
\* password.
C16_Witness ==
    /\ HasEncryption
    /\ SamePassword
    /\ Len(typed) = 2
    /\ typed[1] # ""
    /\ pem_content.inner # <<>>
    /\ encrypted[1].value # pem_content
    /\ decrypted[1].value = pem_content

\* C19: without encryption settings (or without configuration) the content
\* comes back unchanged from maybe_encrypt_pem and from maybe_decrypt_pem,
\* with was_encrypted = false and no password prompt; was_encrypted is true
\* exactly when there are encryption settings and decryption succeeded.
C19_NoEncryptionIsIdentity ==
    /\ (~HasEncryption /\ encrypted # None) =>
            (encrypted[1] = PemOk(pem_content, FALSE) /\ prompts = <<>>)
    /\ (~HasEncryption /\ decrypted # None) =>
            (decrypted[1] = PemOk(pem_content, FALSE) /\ prompts = <<>>)
    /\ decrypted # None =>
            (decrypted[1].was_encrypted <=> (HasEncryption /\ decrypted[1].status = "ok"))

\* A content went through both functions under a configuration without
\* encryption settings.
C19_Witness ==
    /\ identity_config # None
    /\ ~HasEncryption
    /\ decrypted # None
    /\ pem_content.inner # <<>>

\* The chain dir, parent(dir), .., root of a directory.
Ancestors(dir) == {SubSeq(dir, 1, n) : n \in 0..Len(dir)}

\* The directory the argument names, if it names one.
TheDir == Canonicalize(working_dir)[1]

\* The directories on the chain that contain a file dfx.json.
Holders == {d \in Ancestors(TheDir) : config_files[d] = "file"}

Nearest == CHOOSE d \in Holders : \A e \in Holders : Len(e) <= Len(d)

ConfigPathResolved == cpos = "done" /\ Canonicalize(working_dir) # None

\* C17: for a directory dir, resolve_config_path returns the dfx.json of the
\* nearest directory on the chain dir, parent(dir), .., root that contains
\* one, None when none does, never one from outside that chain; every turn
\* of the walk moves one directory up, so it ends at the root.
C17_NearestAncestorConfig ==
    /\ [](ConfigPathResolved =>
            /\ config_path[1].ok
            /\ IF Holders = {}
               THEN config_path[1].value = None
               ELSE config_path[1].value = Some(Append(Nearest, CONFIG_FILE_NAME))
            /\ config_path[1].value # None =>
                  Parent(config_path[1].value[1])[1] \in Ancestors(TheDir))
    /\ [][(cpos = "loop" /\ cpos' = "loop") => Len(curr') < Len(curr)]_vars

\* The walk started two levels below the root, passed a directory whose
\* child holds a dfx.json, and returned the one of the root.
C17_Witness ==
    /\ ConfigPathResolved
    /\ Len(TheDir) = 2
    /\ config_path[1].value = Some(<<CONFIG_FILE_NAME>>)
    /\ \E d \in Directories : Len(d) = 2 /\ d # TheDir /\ config_files[d] = "file"

\* dfx.json configures the network get_network was asked for.
Configured == networks_json # None /\ network_name \in DOMAIN networks_json[1]

ConfiguredObject == networks_json[1][network_name]

\* What the claim says of the network returned for a configured object.
AsConfigured ==
    /\ network[1] # None
    /\ ConfiguredObject.type # None =>
          network[1][1].type = ConfiguredObject.type[1]
    /\ (ConfiguredObject.type = None /\ ConfiguredObject.providers # None) =>
          network[1][1].type = "persistent"
    /\ (ConfiguredObject.type = None /\ ConfiguredObject.providers = None) =>
          /\ network[1][1].variant = "ConfigLocalProvider"
          /\ network[1][1].type = "ephemeral"
    /\ ConfiguredObject.providers # None =>
          network[1][1].providers = ConfiguredObject.providers[1]

\* C18 as stated: for a network configured in dfx.json, get_network returns
\* the configured type, or else persistent for a providers list and ephemeral
\* for a local (bind) provider, and the providers list unchanged.
C18_ConfiguredNetwork ==
    (npos = "done" /\ Configured) => AsConfigured

\* C18 amended: the same for a network configured under a name other than
\* "ic"; for "ic" the configured network is not what is returned.
C18_ConfiguredNetworkNotIc ==
    (npos = "done" /\ Configured /\ network_name # "ic") => AsConfigured

\* The local network, configured with a bind address and no type, was
\* returned as an ephemeral local provider with that address.
C18_Witness ==
    /\ npos = "done"
    /\ Configured
    /\ network_name = "local"
    /\ ConfiguredObject.type = None
    /\ network[1] = Some(ConfigLocalProvider("localhost:8000", "ephemeral"))

\* C21: in every build the optimizer, when it runs, runs before the metadata
\* embedding; the optimizer reads and writes the canister's output wasm path,
\* the embedding rewrites that path and BuildOutput reports it; when the
\* embedding fails, build returns its error and no BuildOutput is stored.
C21_InPlacePostProcessing ==
    /\ \A i, j \in 1..Len(events) :
          (/\ events[i].tool = "ic-cdk-optimizer"
           /\ events[j].tool = "add_candid_service_metadata"
           /\ events[i].canister = events[j].canister) => i < j
    /\ \A i \in 1..Len(events) :
          /\ events[i].tool = "ic-cdk-optimizer" =>
                /\ events[i].input = OutputWasmPath(events[i].canister)
                /\ events[i].output = OutputWasmPath(events[i].canister)
          /\ events[i].tool = "add_candid_service_metadata" =>
                events[i].output = OutputWasmPath(events[i].canister)
    /\ BuildSucceeded => build_result[1].value.wasm = OutputWasmPath(cur)
    /\ (bpc = "returned" /\ Ran("add_candid_service_metadata", cur)
            /\ ~wasm[cur].metadata) =>
          /\ BuildFailed
          /\ build_result[1].err.kind = "AddCandidMetadataFailed"
          /\ build_outputs[cur] = None

\* The optimizer shrank the module, then the embedding failed and build
\* returned the error.
C21_Witness ==
    /\ bpc = "returned"
    /\ Len(events) = 3
    /\ events[2].tool = "ic-cdk-optimizer"
    /\ events[3].tool = "add_candid_service_metadata"
    /\ wasm[cur].shrunk
    /\ ~wasm[cur].metadata
    /\ BuildFailed

\* add_dependencies is entered with a name that was inserted before and is
\* not on the path.
VisitingSharedDependency ==
    rpc = "call" /\ arg \in names /\ ~Contains(path, arg)

\* C22: entering add_dependencies with a name already processed and not on
\* the path returns Ok without touching the path and without a new frame;
\* no dependency list is entered twice; a focused resolution (of a declared
\* canister) of an acyclic project whose names all resolve succeeds, shared
\* dependencies included.
C22_SharedDependenciesNotReExpanded ==
    /\ [][VisitingSharedDependency =>
             (rpc' = "loop" /\ path' = path /\ stack' = stack /\ err' = err
                /\ visits' = visits)]_vars
    /\ [](\A n \in Names : visits[n] <= 1)
    /\ []((Focused /\ some_canister[1] \in Declared /\ Acyclic /\ AllResolve) => Succeeded)

\* a lists b and c, b lists c: c was reached twice, its list was entered
\* once, and the resolution succeeded.
C22_Witness ==
    /\ Focused
    /\ some_canister = Some("a")
    /\ canisters[1]["a"].dependencies = <<"b", "c">>
    /\ canisters[1]["b"].dependencies = <<"c">>
    /\ visits["c"] = 1
    /\ Succeeded

\* C23: when every name reachable from the focus is declared, the focused
\* resolution fails with a circular-dependency error exactly when a canister
\* reachable from the focus lies on a cycle (one that lists itself included);
\* otherwise it succeeds, whatever cycles lie outside.
C23_FailsIffReachableCycle ==
    (Focused /\ FocusReach \subseteq Declared) =>
        /\ (Failed /\ Error.kind = "DependencyError") <=> OnReachableCycle # {}
        /\ OnReachableCycle = {} => Succeeded

\* A focused resolution succeeded although two canisters out of its reach
\* depend on each other.
C23_Witness ==
    /\ Focused
    /\ FocusReach \subseteq Declared
    /\ Succeeded
    /\ \E A, B \in Canisters \ FocusReach : Cycle2(A, B)

\* A successful return of a call that had pushed its name: the loop is over
\* and the frame is left.
ReturnsOk == rpc = "loop" /\ stack # <<>> /\ Len(stack') < Len(stack)

\* C24: every resolution comes to an end, cyclic projects included; a call of
\* add_dependencies that returns Ok leaves the path as it was when the call
\* began, and a successful resolution ends with an empty path.
C24_TerminatesPathBalanced ==
    /\ <>(rpc = "done")
    /\ [][ReturnsOk => path' = stack[Len(stack)].path0]_vars
    /\ [][VisitingSharedDependency => path' = path]_vars
    /\ []((Focused /\ Succeeded) => path = <<>>)

\* A nested call has returned Ok in a project with a cycle: the path holds the
\* focus alone again.
C24_Witness ==
    /\ rpc = "loop"
    /\ Len(stack) = 1
    /\ stack[1].i = 2
    /\ path = <<stack[1].canister_name>>
    /\ Cardinality(names) >= 2
    /\ \E n \in Declared : n \in DependenciesOf(n)

(***************************************************************************)
(* C25                                                                     *)
(***************************************************************************)

TimedOutOrTransport(query_result) ==
    query_result.tag = "Err" /\ query_result.agent_err \in {"TimeoutWaitingForResponse", "TransportError"}

\* What the operation returns when the given query query_result ends it.
OutcomeOf(query_result) ==
    CASE query_result.tag = "Ok(Ok)" /\ query_result.subnet_id # None ->
            [ok |-> TRUE, subnet_id |-> query_result.subnet_id[1], err |-> [message |-> "", detail |-> ""]]
      [] query_result.tag = "Ok(Ok)" /\ query_result.subnet_id = None ->
            [ok |-> FALSE, subnet_id |-> "",
             err |-> [message |-> "no subnet found for canister {}", detail |-> subnet_canister]]
      [] query_result.tag = "Ok(Err)" ->
            [ok |-> FALSE, subnet_id |-> "",
             err |-> [message |-> "unable to determine subnet: {}", detail |-> query_result.text]]
      [] query_result.tag = "Err" ->
            [ok |-> FALSE, subnet_id |-> "", err |-> [message |-> "{}", detail |-> query_result.agent_err]]

\* C25: get_subnet_for_canister sends another registry query only after an
\* attempt that failed with a timeout or a transport error: every attempt but
\* the last one is such a failure, and a query is only ever sent while the
\* operation has not ended.  An attempt that returns a subnet id, no subnet
\* id, a registry error text, or any other agent error ends the operation at
\* once with that outcome, and no query follows it.
C25_RetryOnlyAfterTimeoutOrTransport ==
    /\ [](\A i \in 1..(Len(attempts) - 1) : TimedOutOrTransport(attempts[i]))
    /\ []((attempts # <<>> /\ ~TimedOutOrTransport(attempts[Len(attempts)]))
            => (spos = "done" /\ subnet = Some(OutcomeOf(attempts[Len(attempts)]))))
    /\ [][(attempts' # attempts)
            => /\ spos # "done"
               /\ attempts = <<>> \/ TimedOutOrTransport(attempts[Len(attempts)])
               /\ Len(attempts') = Len(attempts) + 1]_vars
    /\ [][spos = "done" => UNCHANGED <<attempts, subnet>>]_vars

\* A timeout was retried, and the second query failed with an HTTP error,
\* which ended the operation.
C25_Witness ==
    /\ spos = "done"
    /\ Len(attempts) = 2
    /\ attempts[1] = CallErr("TimeoutWaitingForResponse")
    /\ attempts[2] = CallErr("HttpError")
    /\ subnet = Some(SubnetErr(Anyhow("{}", "HttpError")))

\* C27: get_network("ic") returns the persistent provider whose only gateway
\* is https://ic0.app, whatever dfx.json configures under "ic";
\* get_network("local") returns the ephemeral local provider bound to
\* 127.0.0.1:8000 when dfx.json configures no "local" network and the
\* configured network when it does; for every other name the result is the
\* configured network, or None when there is none.
C27_BuiltInNetworks ==
    npos = "done" =>
        /\ network_name = "ic" =>
              network[1] = Some([variant |-> "ConfigNetworkProvider",
                                 providers |-> <<"https://ic0.app">>,
                                 bind |-> "", type |-> "persistent"])
        /\ (network_name = "local" /\ ~Configured) =>
              network[1] = Some([variant |-> "ConfigLocalProvider", providers |-> <<>>,
                                 bind |-> "127.0.0.1:8000", type |-> "ephemeral"])
        /\ (network_name # "ic" /\ Configured) =>
              network[1] = Some(networks[1][network_name])
        /\ (network_name \notin {"ic", "local"} /\ ~Configured) =>
              network[1] = None

\* dfx.json configures "ic" with a gateway of its own and get_network("ic")
\* returned the built-in provider.
C27_Witness ==
    /\ npos = "done"
    /\ network_name = "ic"
    /\ Configured
    /\ ConfiguredObject.providers = Some(<<"https://1.2.3.4:5000">>)
    /\ network[1] = Some(ConfigNetworkProvider(<<DEFAULT_IC_GATEWAY>>, "persistent"))

\* C26: for every identity name and configuration without an HSM, when
\* save_pem(name, config, content) succeeded, load_pem(name, config) returns
\* exactly content; for a keyring identity, the key save_pem stored the PEM
\* under is the key load_pem looked it up under.
C26_SaveThenLoadReturnsContent ==
    (kpos = "loaded" /\ safe_config.hsm = None /\ saved[1].status = "ok") =>
        /\ loaded[1].status = "ok"
        /\ loaded[1].value = safe_content
        /\ safe_config.keyring_identity_suffix # None => stored_key = looked_up_key

\* The type tag the object declares, "motoko" when it has no type field.
DeclaredTag == IF type_object.type = None THEN "motoko" ELSE type_object.type[1].text

\* The type field, when there is one, is a string.
TagIsString == type_object.type # None => type_object.type[1].kind = "string"

\* The fields each type requires.
RequiredFields(tag) ==
    CASE tag = "rust" -> {"package", "candid"}
      [] tag = "assets" -> {"source"}
      [] tag = "custom" -> {"build", "candid", "wasm"}
      [] OTHER -> {}

VariantOf(tag) ==
    CASE tag = "rust" -> "Rust"
      [] tag = "assets" -> "Assets"
      [] tag = "custom" -> "Custom"
      [] OTHER -> "Motoko"

\* Every field visit_map reads that is present holds a value of its type.
WellTypedFields ==
    \A k \in {"package", "candid", "wasm", "type", "source", "build"} :
        type_object[k] # None =>
            type_object[k][1].kind = (IF k \in {"source", "build"} THEN "array" ELSE "string")

\* What the claim says of the result of parsing and of name().
ParsedByTag ==
    /\ DeclaredTag = "motoko" =>
          (props[1].ok /\ props[1].props.variant = "Motoko")
    /\ DeclaredTag \in {"rust", "assets", "custom"} =>
          IF \A k \in RequiredFields(DeclaredTag) : type_object[k] # None
          THEN /\ props[1].ok
               /\ props[1].props.variant = VariantOf(DeclaredTag)
          ELSE /\ ~props[1].ok
               /\ props[1].error.kind = "missing_field"
               /\ props[1].error.what \in RequiredFields(DeclaredTag)
               /\ type_object[props[1].error.what] = None
    /\ DeclaredTag \notin {"motoko", "rust", "assets", "custom"} => ~props[1].ok
    /\ tpos = "named" => type_name = Some(DeclaredTag)

\* C28 as stated: parsing a canister's type properties yields Motoko when the
\* type field is absent or "motoko"; yields Rust, Assets or Custom when all
\* fields the type requires are present and fails with a missing-field error
\* otherwise; fails for any other type string; and name() of an accepted input
\* is the declared type tag.
C28_TypePropertiesByTag ==
    (tpos \in {"done", "named"} /\ TagIsString) => ParsedByTag

\* C28 amended: the same when every field visit_map reads that is present
\* holds a value of the field's type; when one does not, parsing fails with a
\* type error, whatever the type tag is.
C28_TypePropertiesByTagWellTyped ==
    tpos \in {"done", "named"} =>
        IF WellTypedFields
        THEN ParsedByTag
        ELSE ~props[1].ok /\ props[1].error.kind = "invalid_type"

\* A custom canister with build, candid and wasm (and a main that visit_map
\* skips) was parsed, and name() returned "custom".
C28_Witness ==
    /\ tpos = "named"
    /\ type_object.main # None
    /\ props[1] = PropsOk(Custom("hello.wasm", "hello.did", "make"))
    /\ type_name = Some("custom")

\* The transfer was sent and failed.
TransferFailed == ledger_result # None /\ ~ledger_result[1].ok

\* C29: when the cycles transfer command has returned, the retry hint was
\* emitted exactly when the transfer failed and no --created-at-time was
\* given, and it carries the timestamp that was sent; the timestamp sent with
\* the transfer is the user's value when one was given and the system time
\* otherwise; transfer_from is the call made exactly when --from was given;
\* and a failed transfer makes the command return the error of the transfer.
C29_TransferHintAndTimestamp ==
    /\ xpos = "done" =>
          /\ hints # <<>> <=> (TransferFailed /\ transfer_opts.created_at_time = None)
          /\ Len(hints) <= 1
          /\ TransferFailed => exec_result = Some([status |-> "err",
                                                   error |-> ledger_result[1].error])
          /\ (ledger_result # None /\ ledger_result[1].ok) => exec_result[1].status = "ok"
    /\ xpos # "done" => hints = <<>>
    /\ Len(ledger_calls) <= 1
    /\ \A i \in 1..Len(ledger_calls) :
          /\ ledger_calls[i].created_at_time =
                IF transfer_opts.created_at_time # None
                THEN transfer_opts.created_at_time[1]
                ELSE clock
          /\ ledger_calls[i].fn = "transfer_from" <=> transfer_opts.from # None
          /\ ledger_calls[i].fn = "transfer" <=> transfer_opts.from = None
          /\ \A j \in 1..Len(hints) : hints[j] = ledger_calls[i].created_at_time

\* A transfer_from without --created-at-time failed: the hint carries the
\* clock's timestamp and the command returned the error.
C29_Witness ==
    /\ xpos = "done"
    /\ transfer_opts.from # None
    /\ transfer_opts.created_at_time = None
    /\ clock = 2
    /\ Len(ledger_calls) = 1
    /\ ledger_calls[1].fn = "transfer_from"
    /\ hints = <<2>>
    /\ exec_result = Some(ExecErr("TooOld"))

====
